---- MODULE Spec2Model ----
(***************************************************************************)
(* The URL filter matching engine of adblockpluscore: the keyword-indexed  *)
(* Matcher in its two forms (the lazily indexed one with the per-keyword   *)
(* FiltersByDomain walk, and the one with the simple/complex split), the   *)
(* CombinedMatcher with its result cache, and FiltersByDomain.             *)
(*                                                                         *)
(* Strings the code scans character by character (filter patterns, URLs)   *)
(* are sequences of one-character strings; host names are sequences of     *)
(* labels, most specific label first, so that "" is <<>>.  A JavaScript    *)
(* value that may be null or undefined is a sequence of length 0 or 1.     *)
(* A content type bit mask is the set of the types whose bit is set.       *)
(***************************************************************************)
EXTENDS Integers, Sequences, FiniteSets, TLC

(***************************************************************************)
(* Bounds of the model.                                                    *)
(***************************************************************************)
\* At most this many filters are held by a CombinedMatcher at a time.
MaxFilters == 2
\* At most this many distinct queries are answered between two mutations.
MaxCached == 1

(***************************************************************************)
(* Sequences and JavaScript Map objects.  A Map whose iteration order the  *)
(* code observes is a sequence of <<key, value>> pairs in insertion order; *)
(* a Map that is only read by key is a function on its keys.               *)
(***************************************************************************)
None == <<>>

Some(x) == <<x>>

SeqToSet(s) == {s[i] : i \in 1..Len(s)}

Contains(s, x) == \E i \in 1..Len(s) : s[i] = x

RemoveAt(s, i) == SubSeq(s, 1, i - 1) \o SubSeq(s, i + 1, Len(s))

\* Index of the first element equal to x, 0 when there is none.
IndexOf(s, x) ==
  IF Contains(s, x) THEN CHOOSE i \in 1..Len(s) : s[i] = x /\ \A j \in 1..(i - 1) : s[j] # x
  ELSE 0

RECURSIVE Join(_)
Join(cs) == IF cs = <<>> THEN "" ELSE Head(cs) \o Join(Tail(cs))

RECURSIVE JoinWith(_, _)
JoinWith(parts, sep) ==
  IF parts = <<>> THEN ""
  ELSE IF Len(parts) = 1 THEN parts[1]
  ELSE parts[1] \o sep \o JoinWith(Tail(parts), sep)

MapHas(m, k) == \E i \in 1..Len(m) : m[i][1] = k

MapIndex(m, k) == CHOOSE i \in 1..Len(m) : m[i][1] = k

MapGet(m, k) == m[MapIndex(m, k)][2]

\* Map.prototype.set: an existing key keeps its place, a new one goes last.
MapSet(m, k, v) ==
  IF MapHas(m, k) THEN [m EXCEPT ![MapIndex(m, k)] = <<k, v>>]
  ELSE Append(m, <<k, v>>)

MapDelete(m, k) == IF MapHas(m, k) THEN RemoveAt(m, MapIndex(m, k)) ELSE m

FnSet(f, k, v) == (k :> v) @@ f

FnDelete(f, k) == [x \in (DOMAIN f) \ {k} |-> f[x]]

EmptyFn == [x \in {} |-> 0]

FnGet(f, k, default) == IF k \in DOMAIN f THEN f[k] ELSE default

\* F applied to the value of e, which is computed once.
Let(e, F(_)) == CHOOSE y \in {F(x) : x \in {e}} : TRUE

(***************************************************************************)
(* Characters.                                                             *)
(***************************************************************************)
LowerCaseLetters == {"a", "b", "c", "d", "e", "h", "j", "k", "m", "n", "o", "p", "s", "t", "w", "x", "z"}

UpperCaseLetters == {"A", "D"}

\* [a-z0-9%]: the characters a keyword is made of.
KeywordChars == LowerCaseLetters \cup {"0", "1", "%"}

\* [\w\-]
WordChars == LowerCaseLetters \cup UpperCaseLetters \cup {"0", "1", "_", "-"}

\* The characters of the model that separatorRegExp matches.
SeparatorChars == {"/", ":", "?", "=", "&"}

toLowerCaseChar(c) == IF c = "A" THEN "a" ELSE IF c = "D" THEN "d" ELSE c

toLowerCase(s) == [i \in 1..Len(s) |-> toLowerCaseChar(s[i])]

(***************************************************************************)
(* Content types.                                                          *)
(***************************************************************************)
TypeBit ==
  ("OTHER" :> 1) @@ ("SCRIPT" :> 2) @@ ("IMAGE" :> 4) @@ ("POPUP" :> 16777216)
  @@ ("CSP" :> 33554432) @@ ("DOCUMENT" :> 67108864) @@ ("ELEMHIDE" :> 268435456)

ContentTypeNames == DOMAIN TypeBit

RESOURCE_TYPES == {"OTHER", "SCRIPT", "IMAGE"}

SPECIAL_TYPES == ContentTypeNames \ RESOURCE_TYPES

WHITELISTING_TYPES == {"DOCUMENT", "ELEMHIDE"}

RECURSIVE SumBits(_)
SumBits(types) ==
  IF types = {} THEN 0
  ELSE LET t == CHOOSE x \in types : TRUE IN TypeBit[t] + SumBits(types \ {t})

\* The types of contentType that are in selection, lowest bit first.
RECURSIVE enumerateTypes(_, _)
enumerateTypes(contentType, selection) ==
  LET mask == contentType \cap selection IN
  IF mask = {} THEN <<>>
  ELSE LET t == CHOOSE x \in mask : \A y \in mask : TypeBit[x] <= TypeBit[y]
       IN <<t>> \o enumerateTypes(contentType \ {t}, selection)

(***************************************************************************)
(* The filters of the model, by their text, and what Filter.fromText makes *)
(* of each text.                                                           *)
(***************************************************************************)
\* "^ad^": blocking, every resource type, no domains.
F_ad == "^ad^"

\* "/ad/bn^": blocking; a literal pattern with the two keyword candidates ad and bn.
F_adbn == "/ad/bn^"

\* Blocking, restricted to ex.com but not www.ex.com.
F_dom == "^bn^$domain=ex.com|~www.ex.com"

\* Blocking, restricted to documents that present the site key K.
F_key == "^ad^$sitekey=K"

\* Whitelist, for the special type DOCUMENT only.
W_doc == "@@^ad^$document"

\* Whitelist, every resource type, no domains.
W_bn == "@@^bn^"

\* An unknown option: URLFilter.fromText returns an InvalidFilter.
I_opt == "ad$foo"

\* Blocking, restricted to ex.com.
F_ex == "^bn^$domain=ex.com"

\* Blocking, everywhere but on www.ex.com.
F_notwww == "^bn^$domain=~www.ex.com"

\* Blocking, restricted to www.ex.com.
F_www == "^bn^$domain=www.ex.com"

\* Blocking, for the special type DOCUMENT only.
B_doc == "^ad^$document"

\* Whitelist, for the special type ELEMHIDE only.
W_eh == "@@^ad^$elemhide"

\* Blocking, with the one keyword candidate abn.
F_abn == "^abn^"

\* Blocking, with a shorter and a longer keyword candidate.
F_long == "/ad/abn^"

\* Blocking, with a candidate that is a bad keyword and one that is not.
F_com == "^com^bn^"

\* Blocking, with no candidate but a bad keyword.
F_http == "^http^"

\* Blocking, included on ex.com and on www.ex.com.
F_both == "^bn^$domain=ex.com|www.ex.com"

BlockingTexts == {F_ad, F_adbn, F_dom, F_key}

WhitelistTexts == {W_doc, W_bn}

URLFilterTexts == BlockingTexts \cup WhitelistTexts

InvalidTexts == {I_opt}

FilterTexts == URLFilterTexts \cup InvalidTexts

Dom_ex == <<"ex", "com">>

Dom_www == <<"www", "ex", "com">>

Dom_blank == <<>>

\* The fields of a URLFilter as its constructor sets them.
URLFilter(type, regexpSource, contentType, matchCase, domains, sitekeys) ==
  [type |-> type,
   pattern |-> Some(IF matchCase THEN regexpSource ELSE toLowerCase(regexpSource)),
   contentType |-> Some(contentType),
   matchCase |-> matchCase,
   thirdParty |-> None,
   domains |-> domains,
   sitekeys |-> sitekeys]

\* An InvalidFilter has a text, a type and a reason, and nothing else.
InvalidFilter ==
  [type |-> "invalid", pattern |-> None, contentType |-> None, matchCase |-> FALSE,
   thirdParty |-> None, domains |-> None, sitekeys |-> None]

\* Filter.fromText on the texts of the model (domains as parseDomains returns them).
fromText(text) ==
  CASE text = F_ad -> URLFilter("blocking", <<"^", "a", "d", "^">>, RESOURCE_TYPES, FALSE, None, None)
    [] text = F_adbn -> URLFilter("blocking", <<"/", "a", "d", "/", "b", "n", "^">>, RESOURCE_TYPES, FALSE, None, None)
    [] text = F_dom -> URLFilter("blocking", <<"^", "b", "n", "^">>, RESOURCE_TYPES, FALSE,
                                 Some(<< <<Dom_ex, TRUE>>, <<Dom_www, FALSE>>, <<Dom_blank, FALSE>> >>), None)
    [] text = F_key -> URLFilter("blocking", <<"^", "a", "d", "^">>, RESOURCE_TYPES, FALSE, None, Some(<<"K">>))
    [] text = F_ex -> URLFilter("blocking", <<"^", "b", "n", "^">>, RESOURCE_TYPES, FALSE,
                                Some(<< <<Dom_ex, TRUE>>, <<Dom_blank, FALSE>> >>), None)
    [] text = F_notwww -> URLFilter("blocking", <<"^", "b", "n", "^">>, RESOURCE_TYPES, FALSE,
                                    Some(<< <<Dom_www, FALSE>>, <<Dom_blank, TRUE>> >>), None)
    [] text = F_www -> URLFilter("blocking", <<"^", "b", "n", "^">>, RESOURCE_TYPES, FALSE,
                                 Some(<< <<Dom_www, TRUE>>, <<Dom_blank, FALSE>> >>), None)
    [] text = F_both -> URLFilter("blocking", <<"^", "b", "n", "^">>, RESOURCE_TYPES, FALSE,
                                  Some(<< <<Dom_ex, TRUE>>, <<Dom_www, TRUE>>, <<Dom_blank, FALSE>> >>), None)
    [] text = F_abn -> URLFilter("blocking", <<"^", "a", "b", "n", "^">>, RESOURCE_TYPES, FALSE, None, None)
    [] text = F_long -> URLFilter("blocking", <<"/", "a", "d", "/", "a", "b", "n", "^">>, RESOURCE_TYPES, FALSE, None, None)
    [] text = F_com -> URLFilter("blocking", <<"^", "c", "o", "m", "^", "b", "n", "^">>, RESOURCE_TYPES, FALSE, None, None)
    [] text = F_http -> URLFilter("blocking", <<"^", "h", "t", "t", "p", "^">>, RESOURCE_TYPES, FALSE, None, None)
    [] text = W_doc -> URLFilter("whitelist", <<"^", "a", "d", "^">>, {"DOCUMENT"}, FALSE, None, None)
    [] text = B_doc -> URLFilter("blocking", <<"^", "a", "d", "^">>, {"DOCUMENT"}, FALSE, None, None)
    [] text = W_eh -> URLFilter("whitelist", <<"^", "a", "d", "^">>, {"ELEMHIDE"}, FALSE, None, None)
    [] text = W_bn -> URLFilter("whitelist", <<"^", "b", "n", "^">>, RESOURCE_TYPES, FALSE, None, None)
    [] OTHER -> InvalidFilter

\* instanceof URLFilter: the filter has matches(), pattern, contentType.
isURLFilter(text) == fromText(text).type \in {"blocking", "whitelist"}

\* With includeBlank the empty host name comes last.
domainSuffixes(domain, includeBlank) ==
  [i \in 1..Len(domain) |-> SubSeq(domain, i, Len(domain))]
  \o (IF includeBlank THEN <<Dom_blank>> ELSE <<>>)

toUpperCaseKey(sitekey) == IF sitekey = "k" THEN "K" ELSE sitekey

URLRequest_from(href, docDomain) ==
  [href |-> href, lowerCaseHref |-> toLowerCase(href),
   documentHostname |-> docDomain, thirdParty |-> FALSE]

domainsGet(domains, domain) == MapHas(domains, domain) /\ MapGet(domains, domain)

RECURSIVE firstKnownSuffix(_, _, _)
firstKnownSuffix(domains, suffixes, i) ==
  IF i > Len(suffixes) THEN domainsGet(domains, Dom_blank)
  ELSE IF MapHas(domains, suffixes[i]) THEN MapGet(domains, suffixes[i])
  ELSE firstKnownSuffix(domains, suffixes, i + 1)

\* docDomain without its last character when that is a dot: a host name that
\* ends in a dot has the empty label last.
withoutTrailingDot(docDomain) ==
  IF Len(docDomain) >= 2 /\ docDomain[Len(docDomain)] = ""
    THEN SubSeq(docDomain, 1, Len(docDomain) - 1)
    ELSE docDomain

\* An isActiveOnDomain that looks for the site key as the request gives it.
isActiveOnDomainExactKey(filter, docDomain, sitekey) ==
  IF filter.sitekeys # None
     /\ (sitekey = None \/ ~Contains(filter.sitekeys[1], sitekey[1]))
  THEN FALSE
  ELSE IF filter.domains = None THEN TRUE
  ELSE IF docDomain = None \/ withoutTrailingDot(docDomain[1]) \in {<<>>, <<"">>}
    THEN domainsGet(filter.domains[1], Dom_blank)
  ELSE firstKnownSuffix(filter.domains[1],
                        domainSuffixes(withoutTrailingDot(docDomain[1]), FALSE), 1)

\* ActiveFilter.isActiveOnDomain, on the fields of the filter.
isActiveOnDomain(filter, docDomain, sitekey) ==
  IF filter.sitekeys # None
     /\ (sitekey = None \/ ~Contains(filter.sitekeys[1], toUpperCaseKey(sitekey[1])))
  THEN FALSE
  ELSE IF filter.domains = None THEN TRUE
  ELSE IF docDomain = None \/ withoutTrailingDot(docDomain[1]) \in {<<>>, <<"">>}
    THEN domainsGet(filter.domains[1], Dom_blank)
  ELSE firstKnownSuffix(filter.domains[1],
                        domainSuffixes(withoutTrailingDot(docDomain[1]), FALSE), 1)

\* ActiveFilter.isGeneric, on the fields of the filter.
isGenericFilter(filter) ==
  ~(filter.sitekeys # None /\ Len(filter.sitekeys[1]) > 0)
  /\ (filter.domains = None \/ domainsGet(filter.domains[1], Dom_blank))

isGeneric(text) == isGenericFilter(fromText(text))

(***************************************************************************)
(* Matching a pattern against a location.                                  *)
(***************************************************************************)
\* The pattern without its leading | or ||.
withoutLeadingAnchor(pattern) ==
  IF Len(pattern) >= 2 /\ pattern[1] = "|" /\ pattern[2] = "|"
    THEN SubSeq(pattern, 3, Len(pattern))
  ELSE IF Len(pattern) >= 1 /\ pattern[1] = "|" THEN SubSeq(pattern, 2, Len(pattern))
  ELSE pattern

\* The pattern without its trailing character when that is one of last.
withoutTrailing(pattern, last) ==
  IF Len(pattern) >= 1 /\ pattern[Len(pattern)] \in last
    THEN SubSeq(pattern, 1, Len(pattern) - 1)
    ELSE pattern

\* isLiteralPattern: without a leading | or || and a trailing | or ^, the
\* pattern holds none of * ^ |.
isLiteralPattern(pattern) ==
  \A c \in SeqToSet(withoutTrailing(withoutLeadingAnchor(pattern), {"|", "^"})) :
    c \notin {"*", "^", "|"}

\* The regular expression filterToRegExp("||") + "$" on the text before a match:
\* a scheme, a colon, slashes, and then nothing or a run without slashes that
\* ends in a dot.
extendedAnchorTest(prefix) ==
  \E i \in 1..Len(prefix) : \E j \in 1..Len(prefix) :
    /\ i + 1 + j <= Len(prefix)
    /\ \A k \in 1..i : prefix[k] \in WordChars
    /\ prefix[i + 1] = ":"
    /\ \A k \in (i + 2)..(i + 1 + j) : prefix[k] = "/"
    /\ \/ i + 1 + j = Len(prefix)
       \/ /\ Len(prefix) - (i + 1 + j) >= 2
          /\ prefix[Len(prefix)] = "."
          /\ \A k \in (i + 2 + j)..Len(prefix) : prefix[k] # "/"

\* String.prototype.indexOf, with positions counted from 1: 0 when text
\* does not occur in location.
indexOf(location, text) ==
  IF \E i \in 1..(Len(location) - Len(text) + 1) :
       SubSeq(location, i, i + Len(text) - 1) = text
    THEN CHOOSE i \in 1..(Len(location) - Len(text) + 1) :
           /\ SubSeq(location, i, i + Len(text) - 1) = text
           /\ \A j \in 1..(i - 1) : SubSeq(location, j, j + Len(text) - 1) # text
    ELSE 0

\* Whether the rest of pattern, from element i on, matches location from
\* position j on: * is any run, ^ is a separator character or the end, a
\* final | is the end.
RECURSIVE matchFrom(_, _, _, _)
matchFrom(pattern, i, location, j) ==
  IF i > Len(pattern) THEN TRUE
  ELSE IF pattern[i] = "*"
    THEN \E k \in j..(Len(location) + 1) : matchFrom(pattern, i + 1, location, k)
  ELSE IF pattern[i] = "^"
    THEN \/ j <= Len(location) /\ location[j] \in SeparatorChars
            /\ matchFrom(pattern, i + 1, location, j + 1)
         \/ j = Len(location) + 1 /\ matchFrom(pattern, i + 1, location, j)
  ELSE IF pattern[i] = "|" /\ i = Len(pattern)
    THEN j = Len(location) + 1
  ELSE j <= Len(location) /\ location[j] = pattern[i]
       /\ matchFrom(pattern, i + 1, location, j + 1)

\* new RegExp(filterToRegExp(pattern)).test(location)
regexpTest(pattern, location) ==
  IF Len(pattern) >= 2 /\ pattern[1] = "|" /\ pattern[2] = "|"
    THEN \E j \in 1..(Len(location) + 1) :
           /\ extendedAnchorTest(SubSeq(location, 1, j - 1))
           /\ matchFrom(pattern, 3, location, j)
  ELSE IF Len(pattern) >= 1 /\ pattern[1] = "|"
    THEN matchFrom(pattern, 2, location, 1)
  ELSE \E j \in 1..(Len(location) + 1) : matchFrom(pattern, 1, location, j)

\* The literal test of _matchesLocation, for the pattern without its anchors
\* and the index of its first occurrence in the location (0: none).
literalTestAt(full, pattern, location, index) ==
  /\ index # 0
  /\ IF Len(full) >= 2 /\ full[1] = "|" /\ full[2] = "|"
       THEN location[index] # "/" /\ extendedAnchorTest(SubSeq(location, 1, index - 1))
     ELSE IF Len(full) >= 1 /\ full[1] = "|" THEN index = 1
     ELSE TRUE
  /\ IF Len(full) >= 1 /\ full[Len(full)] = "^"
       THEN \/ index + Len(pattern) > Len(location)
            \/ location[index + Len(pattern)] \in SeparatorChars
     ELSE IF Len(full) >= 1 /\ full[Len(full)] = "|"
       THEN index + Len(pattern) = Len(location) + 1
     ELSE TRUE

literalTest(full, pattern, location) ==
  literalTestAt(full, pattern, location, indexOf(location, pattern))

\* URLFilter._matchesLocation: the regular expression, or for a literal
\* pattern the test at its first occurrence.
matchesLocation(filter, request) ==
  IF isLiteralPattern(filter.pattern[1])
    THEN literalTest(filter.pattern[1],
                     withoutTrailing(withoutLeadingAnchor(filter.pattern[1]), {"|", "^"}),
                     IF filter.matchCase THEN request.href ELSE request.lowerCaseHref)
    ELSE regexpTest(filter.pattern[1],
                    IF filter.matchCase THEN request.href ELSE request.lowerCaseHref)

\* URLFilter.matches
matches(filter, request, typeMask, sitekey) ==
  /\ filter.contentType[1] \cap typeMask # {}
  /\ (filter.thirdParty = None \/ filter.thirdParty[1] = request.thirdParty)
  /\ matchesLocation(filter, request)
  /\ isActiveOnDomain(filter, request.documentHostname, sitekey)

(***************************************************************************)
(* Keywords.                                                               *)
(***************************************************************************)
isBadKeyword(keyword) ==
  keyword = "https" \/ keyword = "http" \/ keyword = "com" \/ keyword = "js"

\* The length of the run of keyword characters that starts at position i.
RECURSIVE runLength(_, _)
runLength(s, i) ==
  IF i <= Len(s) /\ s[i] \in KeywordChars THEN 1 + runLength(s, i + 1) ELSE 0

\* pattern.match(allKeywordsRegExp), each match without its first character:
\* a run of n >= 2 keyword characters after a character that is neither a
\* keyword character nor *, and before another such character.
RECURSIVE allKeywords(_, _)
keywordAt(pattern, i, n) ==
  IF /\ pattern[i] \notin KeywordChars \cup {"*"}
     /\ n >= 2
     /\ i + n + 1 <= Len(pattern)
     /\ pattern[i + n + 1] \notin KeywordChars \cup {"*"}
  THEN <<Join(SubSeq(pattern, i + 1, i + n))>> \o allKeywords(pattern, i + n + 1)
  ELSE allKeywords(pattern, i + 1)

allKeywords(pattern, i) ==
  IF i > Len(pattern) THEN <<>> ELSE keywordAt(pattern, i, runLength(pattern, i + 1))

\* location.match(/[a-z0-9%]{2,}|$/g): the runs of two or more keyword
\* characters from left to right, then the empty match at the end.
RECURSIVE urlCandidates(_, _)
candidateAt(location, i, n) ==
  IF n >= 2 THEN <<Join(SubSeq(location, i, i + n - 1))>> \o urlCandidates(location, i + n)
  ELSE urlCandidates(location, i + 1)

urlCandidates(location, i) ==
  IF i > Len(location) THEN <<"">> ELSE candidateAt(location, i, runLength(location, i))

RECURSIVE chooseKeyword(_, _, _, _, _)
chooseKeyword(candidates, i, counts, result, resultCount) ==
  IF i > Len(candidates) THEN result
  ELSE IF isBadKeyword(candidates[i])
    THEN chooseKeyword(candidates, i + 1, counts, result, resultCount)
  ELSE IF \/ counts[candidates[i]] < resultCount
          \/ counts[candidates[i]] = resultCount /\ Len(candidates[i]) > Len(result)
    THEN chooseKeyword(candidates, i + 1, counts, candidates[i], counts[candidates[i]])
  ELSE chooseKeyword(candidates, i + 1, counts, result, resultCount)

\* The candidates of a filter's pattern; none when the filter has no pattern.
patternCandidates(filter) ==
  IF filter.pattern = None THEN <<>> ELSE allKeywords(toLowerCase(filter.pattern[1]), 1)

\* findKeyword, for the number of filters held under each candidate.
findKeyword(candidates, counts) == chooseKeyword(candidates, 1, counts, "", 16777215)

(***************************************************************************)
(* Queries: the arguments of match and search.                             *)
(***************************************************************************)
\* "x:/ad/bn": the keyword candidates of the URL are ad, bn and "".
H_adbn == <<"x", ":", "/", "a", "d", "/", "b", "n">>

Query(href, typeMask, docDomain, sitekey, specificOnly) ==
  [href |-> href, typeMask |-> typeMask, docDomain |-> docDomain,
   sitekey |-> sitekey, specificOnly |-> specificOnly]

\* A script request without a document.
Q_script == Query(H_adbn, {"SCRIPT"}, None, None, FALSE)

\* A script request from ex.com with a site key, specific filters only.
Q_specific == Query(H_adbn, {"SCRIPT"}, Some(Dom_ex), Some("k"), TRUE)

\* The single special type DOCUMENT.
Q_document == Query(H_adbn, {"DOCUMENT"}, None, None, FALSE)

\* The two whitelisting types together.
Q_masks == Query(H_adbn, {"DOCUMENT", "ELEMHIDE"}, None, None, FALSE)

Queries == {Q_script, Q_specific, Q_document}

FilterTypes == {"all", "blocking", "whitelist"}

\* The candidates of a query that are not skipped as bad keywords.
candidatesOf(q) ==
  SelectSeq(urlCandidates(toLowerCase(q.href), 1), LAMBDA c : ~isBadKeyword(c))

\* filter.matches(request, typeMask, sitekey), which matchFilter calls.
matchFilter(filter, q) ==
  matches(filter, URLRequest_from(q.href, q.docDomain), q.typeMask, q.sitekey)

\* The loop over the filters of one bucket: skip the generic ones under
\* specificOnly, return the first match or push every match to the collection.
\* Calling isGeneric or matches on a filter that is not a URLFilter throws.
RECURSIVE scanFilters(_, _, _, _, _, _)
scanFilter(filter, filters, i, q, specificOnly, collect, coll) ==
  IF filter.type \notin {"blocking", "whitelist"}
    THEN [hit |-> None, coll |-> coll, exc |-> TRUE]
  ELSE IF specificOnly /\ isGenericFilter(filter)
    THEN scanFilters(filters, i + 1, q, specificOnly, collect, coll)
  ELSE IF ~matchFilter(filter, q)
    THEN scanFilters(filters, i + 1, q, specificOnly, collect, coll)
  ELSE IF collect
    THEN scanFilters(filters, i + 1, q, specificOnly, collect, Append(coll, filters[i]))
  ELSE [hit |-> Some(filters[i]), coll |-> coll, exc |-> FALSE]

scanFilters(filters, i, q, specificOnly, collect, coll) ==
  IF i > Len(filters) THEN [hit |-> None, coll |-> coll, exc |-> FALSE]
  ELSE scanFilter(fromText(filters[i]), filters, i, q, specificOnly, collect, coll)

(***************************************************************************)
(* FiltersByDomain.  The value held for a domain is a bare filter or a     *)
(* FilterMap; a bare filter is a string (the filter's text) or, when the   *)
(* caller hands in Filter objects, an object.                              *)
(***************************************************************************)
defaultDomains == << <<Dom_blank, TRUE>> >>

BareFilter(text, asObject) ==
  [kind |-> IF asObject THEN "object" ELSE "string", text |-> text, entries |-> <<>>]

FilterMap(entries) == [kind |-> "map", text |-> "", entries |-> entries]

\* A loop body of add that leaves a bare filter as it is when another filter
\* comes to its domain.
addToDomainKeepBare(map, text, domain, include, cur) ==
  IF cur.kind = "string" THEN [map |-> map, exc |-> FALSE]
  ELSE IF cur.kind = "map"
    THEN [map |-> MapSet(map, domain, FilterMap(MapSet(cur.entries, text, include))),
          exc |-> FALSE]
  ELSE [map |-> map, exc |-> TRUE]

\* A loop body of add that puts the filter at the end of a FilterMap without
\* looking whether the map holds it.
addToDomainAppend(map, text, domain, include, cur) ==
  IF cur.kind = "string"
    THEN [map |-> IF text # cur.text
                    THEN MapSet(map, domain,
                                FilterMap(<< <<cur.text, TRUE>>, <<text, include>> >>))
                    ELSE map,
          exc |-> FALSE]
  ELSE IF cur.kind = "map"
    THEN [map |-> MapSet(map, domain, FilterMap(Append(cur.entries, <<text, include>>))),
          exc |-> FALSE]
  ELSE [map |-> map, exc |-> TRUE]

\* A loop body of add that puts the new filter before the bare filter it
\* joins in the FilterMap.
addToDomainNewFirst(map, text, domain, include, cur) ==
  IF cur.kind = "string"
    THEN [map |-> IF text # cur.text
                    THEN MapSet(map, domain,
                                FilterMap(<< <<text, include>>, <<cur.text, TRUE>> >>))
                    ELSE map,
          exc |-> FALSE]
  ELSE IF cur.kind = "map"
    THEN [map |-> MapSet(map, domain, FilterMap(MapSet(cur.entries, text, include))),
          exc |-> FALSE]
  ELSE [map |-> map, exc |-> TRUE]

\* The body of the loop of FiltersByDomain.add for one domain, cur being the
\* value the map holds for it.  exc: map.set was called on a value that is
\* neither a string nor a FilterMap (TypeError).
addToDomain(map, text, domain, include, cur) ==
  IF cur.kind = "string"
    THEN [map |-> IF text # cur.text
                    THEN MapSet(map, domain,
                                FilterMap(<< <<cur.text, TRUE>>, <<text, include>> >>))
                    ELSE map,
          exc |-> FALSE]
  ELSE IF cur.kind = "map"
    THEN [map |-> MapSet(map, domain, FilterMap(MapSet(cur.entries, text, include))),
          exc |-> FALSE]
  ELSE [map |-> map, exc |-> TRUE]

\* An add that stores the blank domain of a filter also when it is excluded.
RECURSIVE FiltersByDomain_addEvery(_, _, _, _, _)
FiltersByDomain_addEvery(map, text, asObject, domains, i) ==
  IF i > Len(domains) THEN [map |-> map, exc |-> FALSE]
  ELSE IF ~MapHas(map, domains[i][1])
    THEN FiltersByDomain_addEvery(
           MapSet(map, domains[i][1],
                  IF domains[i][2] THEN BareFilter(text, asObject)
                  ELSE FilterMap(<< <<text, FALSE>> >>)),
           text, asObject, domains, i + 1)
  ELSE Let(addToDomain(map, text, domains[i][1], domains[i][2], MapGet(map, domains[i][1])),
           LAMBDA r : IF r.exc THEN r
                      ELSE FiltersByDomain_addEvery(r.map, text, asObject, domains, i + 1))

\* FiltersByDomain.add from the i-th domain on; when it throws, what the
\* earlier domains stored stays in the map.
RECURSIVE FiltersByDomain_add(_, _, _, _, _)
FiltersByDomain_add(map, text, asObject, domains, i) ==
  IF i > Len(domains) THEN [map |-> map, exc |-> FALSE]
  ELSE IF ~domains[i][2] /\ domains[i][1] = Dom_blank
    THEN FiltersByDomain_add(map, text, asObject, domains, i + 1)
  ELSE IF ~MapHas(map, domains[i][1])
    THEN FiltersByDomain_add(
           MapSet(map, domains[i][1],
                  IF domains[i][2] THEN BareFilter(text, asObject)
                  ELSE FilterMap(<< <<text, FALSE>> >>)),
           text, asObject, domains, i + 1)
  ELSE Let(addToDomain(map, text, domains[i][1], domains[i][2], MapGet(map, domains[i][1])),
           LAMBDA r : IF r.exc THEN r
                      ELSE FiltersByDomain_add(r.map, text, asObject, domains, i + 1))

\* What remove leaves for a domain when it does not turn a FilterMap with one
\* included filter into the bare filter.
afterDeleteKeepMap(map, domain, entries) ==
  IF Len(entries) = 0 THEN MapDelete(map, domain)
  ELSE MapSet(map, domain, FilterMap(entries))

\* What remove leaves for a domain when it keeps the key of a FilterMap that
\* has become empty.
afterDeleteKeepKey(map, domain, entries) ==
  IF Len(entries) = 1 /\ entries[1][2]
    THEN MapSet(map, domain, BareFilter(entries[1][1], FALSE))
  ELSE MapSet(map, domain, FilterMap(entries))

\* What FiltersByDomain.remove leaves for a domain whose FilterMap has lost
\* the filter: nothing when the map is empty, the bare filter when the one
\* entry left is included, the map otherwise.
afterDelete(map, domain, entries) ==
  IF Len(entries) = 0 THEN MapDelete(map, domain)
  ELSE IF Len(entries) = 1 /\ entries[1][2]
    THEN MapSet(map, domain, BareFilter(entries[1][1], FALSE))
  ELSE MapSet(map, domain, FilterMap(entries))

\* A loop body of remove that leaves a bare filter where it is.
removeFromDomainOnlyMaps(map, text, domain, cur) ==
  IF cur.kind = "map"
    THEN [map |-> afterDelete(map, domain, MapDelete(cur.entries, text)), exc |-> FALSE]
  ELSE [map |-> map, exc |-> FALSE]

\* The body of the loop of FiltersByDomain.remove for one domain, cur being
\* the value the map holds for it.  exc: map.delete was called on a value that
\* is neither a string nor a FilterMap (TypeError).
removeFromDomain(map, text, domain, cur) ==
  IF cur.kind = "map"
    THEN [map |-> afterDelete(map, domain, MapDelete(cur.entries, text)), exc |-> FALSE]
  ELSE IF cur.kind = "string"
    THEN [map |-> IF text = cur.text THEN MapDelete(map, domain) ELSE map, exc |-> FALSE]
  ELSE [map |-> map, exc |-> TRUE]

\* A remove that looks at one domain of the filter only.
FiltersByDomain_removeOne(map, text, domains, i) ==
  IF i > Len(domains) \/ ~MapHas(map, domains[i][1]) THEN [map |-> map, exc |-> FALSE]
  ELSE removeFromDomain(map, text, domains[i][1], MapGet(map, domains[i][1]))

\* FiltersByDomain.remove from the i-th domain on.
RECURSIVE FiltersByDomain_remove(_, _, _, _)
FiltersByDomain_remove(map, text, domains, i) ==
  IF i > Len(domains) THEN [map |-> map, exc |-> FALSE]
  ELSE IF ~MapHas(map, domains[i][1])
    THEN FiltersByDomain_remove(map, text, domains, i + 1)
  ELSE Let(removeFromDomain(map, text, domains[i][1], MapGet(map, domains[i][1])),
           LAMBDA r : IF r.exc THEN r
                      ELSE FiltersByDomain_remove(r.map, text, domains, i + 1))

\* FiltersByDomain.clear
FiltersByDomain_clear(map) == <<>>

\* The domains a filter is added under: filter.domains || defaultDomains.
domainsOf(filter) == IF filter.domains = None THEN defaultDomains ELSE filter.domains[1]

(***************************************************************************)
(* CompiledPatterns: the patterns of a bucket joined into one expression.  *)
(***************************************************************************)
COMPILE_PATTERNS_MAX == 100

contentTypeOf(filter) == IF filter.contentType = None THEN {} ELSE filter.contentType[1]

\* compilePatterns: null (None) for too many filters, else the compiled
\* filters.  exc: a filter with neither a pattern nor a regexp (TypeError).
compilePatterns(filters) ==
  [exc |-> Len(filters) <= COMPILE_PATTERNS_MAX
           /\ \E i \in 1..Len(filters) : fromText(filters[i]).pattern = None,
   compiled |-> IF Len(filters) > COMPILE_PATTERNS_MAX THEN None ELSE Some(filters)]

\* One alternative of the compiled expression on the request.
patternTest(filter, q) ==
  regexpTest(filter.pattern[1], IF filter.matchCase THEN q.href ELSE toLowerCase(q.href))

\* CompiledPatterns.test: some case-sensitive pattern matches href or some
\* case-insensitive pattern matches lowerCaseHref.
CompiledPatterns_test(compiled, q) ==
  \E i \in 1..Len(compiled) : patternTest(fromText(compiled[i]), q)

(***************************************************************************)
(* What checkEntryMatch leaves behind: the matcher with its caches, the    *)
(* filter returned (None: null), the collection, and whether it threw.     *)
(***************************************************************************)
Out(m, hit, coll, exc) == [m |-> m, hit |-> hit, coll |-> coll, exc |-> exc]

WithMatcher(m, r) == [m |-> m, hit |-> r.hit, coll |-> r.coll, exc |-> r.exc]

(***************************************************************************)
(* The Matcher that builds its indexes lazily and walks a FiltersByDomain  *)
(* per keyword.  A bucket is the sequence of its filters: a lone filter    *)
(* when the length is 1, an array otherwise; <<>> stands for null.         *)
(***************************************************************************)
Lazy_new ==
  [keywordByFilter |-> <<>>, filterCountByKeyword |-> EmptyFn,
   filtersByKeyword |-> EmptyFn, filterMapsByType |-> EmptyFn,
   filterDomainMapsByKeyword |-> EmptyFn, compiledPatternsByKeyword |-> EmptyFn]

\* A clearing of the derived maps that keeps the compiled patterns.
Lazy_clearDerivedKeepCompiled(m) ==
  IF DOMAIN m.filtersByKeyword # {}
    THEN [m EXCEPT !.filtersByKeyword = EmptyFn, !.filterMapsByType = EmptyFn,
                   !.filterDomainMapsByKeyword = EmptyFn]
    ELSE m

\* if (this._filtersByKeyword.size > 0) { clear the four derived maps }
Lazy_clearDerived(m) ==
  IF DOMAIN m.filtersByKeyword # {}
    THEN [m EXCEPT !.filtersByKeyword = EmptyFn, !.filterMapsByType = EmptyFn,
                   !.filterDomainMapsByKeyword = EmptyFn,
                   !.compiledPatternsByKeyword = EmptyFn]
    ELSE m

Lazy_counts(m, candidates) ==
  [c \in SeqToSet(candidates) |-> FnGet(m.filterCountByKeyword, c, 0)]

Lazy_findKeyword(m, text) ==
  findKeyword(patternCandidates(fromText(text)),
              Lazy_counts(m, patternCandidates(fromText(text))))

\* An add that does not look whether the filter is already held: it assigns
\* the keyword and counts the filter again.
Lazy_addAgain(m, text, keyword) ==
  Lazy_clearDerived(
    [m EXCEPT !.keywordByFilter = MapSet(@, text, keyword),
              !.filterCountByKeyword =
                FnSet(@, keyword, FnGet(m.filterCountByKeyword, keyword, 0) + 1)])

\* add with the keyword given; Matcher.add passes findKeyword(filter).
Lazy_addWithKeyword(m, text, keyword) ==
  IF MapHas(m.keywordByFilter, text) THEN m
  ELSE Lazy_clearDerived(
         [m EXCEPT !.keywordByFilter = MapSet(@, text, keyword),
                   !.filterCountByKeyword =
                     FnSet(@, keyword, FnGet(m.filterCountByKeyword, keyword, 0) + 1)])

Lazy_add(m, text) == Lazy_addWithKeyword(m, text, Lazy_findKeyword(m, text))

\* A remove that counts down and keeps the entry of a keyword without
\* filters.
Lazy_removeWithKeywordKeepCount(m, text, keyword) ==
  Lazy_clearDerived(
    [m EXCEPT !.keywordByFilter = MapDelete(@, text),
              !.filterCountByKeyword =
                FnSet(@, keyword, m.filterCountByKeyword[keyword] - 1)])

Lazy_removeWithKeyword(m, text, keyword) ==
  Lazy_clearDerived(
    [m EXCEPT !.keywordByFilter = MapDelete(@, text),
              !.filterCountByKeyword =
                IF m.filterCountByKeyword[keyword] > 1
                  THEN FnSet(@, keyword, m.filterCountByKeyword[keyword] - 1)
                  ELSE FnDelete(@, keyword)])

Lazy_remove(m, text) ==
  IF ~MapHas(m.keywordByFilter, text) THEN m
  ELSE Lazy_removeWithKeyword(m, text, MapGet(m.keywordByFilter, text))

Lazy_addFilterByKeyword(filter, keyword, map) ==
  FnSet(map, keyword, IF keyword \in DOMAIN map THEN Append(map[keyword], filter)
                      ELSE <<filter>>)

\* The loop of _getFiltersForKeyword that fills an empty _filtersByKeyword.
RECURSIVE Lazy_rebuild(_, _, _)
Lazy_rebuild(keywordByFilter, i, map) ==
  IF i > Len(keywordByFilter) THEN map
  ELSE Lazy_rebuild(keywordByFilter, i + 1,
         Lazy_addFilterByKeyword(keywordByFilter[i][1], keywordByFilter[i][2], map))

\* A _getFiltersForKeyword that takes the filters out of keywordByFilter as
\* it builds the buckets.
Lazy_getFiltersForKeywordDraining(m, keyword) ==
  Let(IF DOMAIN m.filtersByKeyword = {} /\ Len(m.keywordByFilter) > 0
        THEN Lazy_rebuild(m.keywordByFilter, 1, EmptyFn)
        ELSE m.filtersByKeyword,
      LAMBDA byKeyword : [m |-> [m EXCEPT !.filtersByKeyword = byKeyword,
                                          !.keywordByFilter = <<>>],
                          filters |-> FnGet(byKeyword, keyword, <<>>)])

Lazy_getFiltersForKeyword(m, keyword) ==
  Let(IF DOMAIN m.filtersByKeyword = {} /\ Len(m.keywordByFilter) > 0
        THEN Lazy_rebuild(m.keywordByFilter, 1, EmptyFn)
        ELSE m.filtersByKeyword,
      LAMBDA byKeyword : [m |-> [m EXCEPT !.filtersByKeyword = byKeyword],
                          filters |-> FnGet(byKeyword, keyword, <<>>)])

\* The filters of the bucket whose content type meets the type mask, which
\* _checkEntryMatchForType stores (null when there is none).
Lazy_filtersForType(m, keyword, typeMask, filtersForKeyword) ==
  IF keyword \in DOMAIN FnGet(m.filterMapsByType, typeMask, EmptyFn)
    THEN m.filterMapsByType[typeMask][keyword]
    ELSE SelectSeq(filtersForKeyword,
                   LAMBDA f : contentTypeOf(fromText(f)) \cap typeMask # {})

Lazy_setFiltersForType(m, keyword, typeMask, filters) ==
  [m EXCEPT !.filterMapsByType =
              FnSet(@, typeMask, FnSet(FnGet(@, typeMask, EmptyFn), keyword, filters))]

Lazy_checkEntryMatchForType(m, keyword, q, specificOnly, collect, coll) ==
  Let(Lazy_getFiltersForKeyword(m, keyword),
      LAMBDA g :
        IF g.filters = <<>> THEN Out(g.m, None, coll, FALSE)
        ELSE Let(Lazy_filtersForType(g.m, keyword, q.typeMask, g.filters),
                 LAMBDA filters :
                   WithMatcher(Lazy_setFiltersForType(g.m, keyword, q.typeMask, filters),
                               scanFilters(filters, 1, q, specificOnly, collect, coll))))

\* The pre-check of _checkEntryMatchByDomain for an array of filters: the
\* compiled patterns are computed once per keyword.  pass: go on to the walk.
Lazy_quickCheck(m, keyword, filters, q) ==
  IF Len(filters) < 2 \/ Len(filters) > COMPILE_PATTERNS_MAX
    THEN [m |-> m, exc |-> FALSE, pass |-> TRUE]
  ELSE IF keyword \in DOMAIN m.compiledPatternsByKeyword
    THEN [m |-> m, exc |-> FALSE,
          pass |-> \/ m.compiledPatternsByKeyword[keyword] = None
                   \/ CompiledPatterns_test(m.compiledPatternsByKeyword[keyword][1], q)]
  ELSE Let(compilePatterns(filters),
           LAMBDA c :
             IF c.exc THEN [m |-> m, exc |-> TRUE, pass |-> FALSE]
             ELSE [m |-> [m EXCEPT !.compiledPatternsByKeyword = FnSet(@, keyword, c.compiled)],
                   exc |-> FALSE,
                   pass |-> c.compiled = None \/ CompiledPatterns_test(c.compiled[1], q)])

\* The loop that fills a new FiltersByDomain with the Filter objects of a
\* bucket; it stops where FiltersByDomain.add throws.
RECURSIVE Lazy_fillDomains(_, _, _)
Lazy_fillDomains(map, filters, i) ==
  IF i > Len(filters) THEN [map |-> map, exc |-> FALSE]
  ELSE Let(FiltersByDomain_add(map, filters[i], TRUE, domainsOf(fromText(filters[i])), 1),
           LAMBDA r : IF r.exc THEN r ELSE Lazy_fillDomains(r.map, filters, i + 1))

\* The FiltersByDomain of a keyword: the new object is stored before it is
\* filled, so it stays in place, partly filled, when the filling throws.
Lazy_domainsFor(m, keyword, filters) ==
  IF keyword \in DOMAIN m.filterDomainMapsByKeyword
    THEN [m |-> m, exc |-> FALSE, map |-> m.filterDomainMapsByKeyword[keyword]]
    ELSE Let(Lazy_fillDomains(<<>>, filters, 1),
             LAMBDA f : [m |-> [m EXCEPT !.filterDomainMapsByKeyword = FnSet(@, keyword, f.map)],
                         exc |-> f.exc, map |-> f.map])

\* The inner loop of the walk, over the entries held for one suffix.  seen:
\* the filters handed to matchFilter so far.
RECURSIVE Lazy_walkEntries(_, _, _, _, _, _, _)
Lazy_walkEntries(entries, j, excluded, q, collect, coll, seen) ==
  IF j > Len(entries)
    THEN [hit |-> None, coll |-> coll, exc |-> FALSE, excluded |-> excluded, seen |-> seen]
  ELSE IF ~entries[j][2]
    THEN Lazy_walkEntries(entries, j + 1, excluded \cup {entries[j][1]}, q, collect, coll, seen)
  ELSE IF entries[j][1] \in excluded
    THEN Lazy_walkEntries(entries, j + 1, excluded, q, collect, coll, seen)
  ELSE IF ~isURLFilter(entries[j][1])
    THEN [hit |-> None, coll |-> coll, exc |-> TRUE, excluded |-> excluded,
          seen |-> Append(seen, entries[j][1])]
  ELSE IF ~matchFilter(fromText(entries[j][1]), q)
    THEN Lazy_walkEntries(entries, j + 1, excluded, q, collect, coll,
                          Append(seen, entries[j][1]))
  ELSE IF collect
    THEN Lazy_walkEntries(entries, j + 1, excluded, q, collect, Append(coll, entries[j][1]),
                          Append(seen, entries[j][1]))
  ELSE [hit |-> Some(entries[j][1]), coll |-> coll, exc |-> FALSE, excluded |-> excluded,
        seen |-> Append(seen, entries[j][1])]

\* map instanceof Filter ? [[map, true]] : map.entries()
entriesOf(map) == IF map.kind = "map" THEN map.entries ELSE << <<map.text, TRUE>> >>

\* The walk over the suffixes of the document's host name.
RECURSIVE Lazy_walkSuffixes(_, _, _, _, _, _, _, _)
Lazy_walkSuffixes(filtersByDomain, suffixes, i, excluded, q, collect, coll, seen) ==
  IF i > Len(suffixes) THEN [hit |-> None, coll |-> coll, exc |-> FALSE, seen |-> seen]
  ELSE IF ~MapHas(filtersByDomain, suffixes[i])
    THEN Lazy_walkSuffixes(filtersByDomain, suffixes, i + 1, excluded, q, collect, coll, seen)
  ELSE IF MapGet(filtersByDomain, suffixes[i]).kind = "string"
    THEN [hit |-> None, coll |-> coll, exc |-> TRUE, seen |-> seen]
  ELSE Let(Lazy_walkEntries(entriesOf(MapGet(filtersByDomain, suffixes[i])),
                            1, excluded, q, collect, coll, seen),
           LAMBDA r :
             IF r.exc \/ r.hit # None
               THEN [hit |-> r.hit, coll |-> r.coll, exc |-> r.exc, seen |-> r.seen]
             ELSE Lazy_walkSuffixes(filtersByDomain, suffixes, i + 1, r.excluded,
                                    q, collect, r.coll, r.seen))

\* request.documentHostname || ""
hostOf(q) == IF q.docDomain = None THEN Dom_blank ELSE q.docDomain[1]

Lazy_checkEntryMatchByDomain(m, keyword, q, specificOnly, collect, coll) ==
  Let(Lazy_getFiltersForKeyword(m, keyword),
      LAMBDA g :
        IF g.filters = <<>> THEN Out(g.m, None, coll, FALSE)
        ELSE Let(Lazy_quickCheck(g.m, keyword, g.filters, q),
                 LAMBDA c :
                   IF c.exc \/ ~c.pass THEN Out(c.m, None, coll, c.exc)
                   ELSE Let(Lazy_domainsFor(c.m, keyword, g.filters),
                            LAMBDA d :
                              IF d.exc THEN Out(d.m, None, coll, TRUE)
                              ELSE WithMatcher(d.m,
                                     Lazy_walkSuffixes(d.map,
                                       domainSuffixes(hostOf(q), ~specificOnly),
                                       1, {}, q, collect, coll, <<>>)))))

\* The filters that _checkEntryMatchByDomain hands to matchFilter, in the
\* order of the calls, when it is given a collection.
Lazy_submittedByDomain(m, keyword, q, specificOnly) ==
  Let(Lazy_getFiltersForKeyword(m, keyword),
      LAMBDA g :
        IF g.filters = <<>> THEN [exc |-> FALSE, seen |-> <<>>]
        ELSE Let(Lazy_quickCheck(g.m, keyword, g.filters, q),
                 LAMBDA c :
                   IF c.exc \/ ~c.pass THEN [exc |-> c.exc, seen |-> <<>>]
                   ELSE Let(Lazy_domainsFor(c.m, keyword, g.filters),
                            LAMBDA d :
                              IF d.exc THEN [exc |-> TRUE, seen |-> <<>>]
                              ELSE Let(Lazy_walkSuffixes(d.map,
                                         domainSuffixes(hostOf(q), ~specificOnly),
                                         1, {}, q, TRUE, <<>>, <<>>),
                                       LAMBDA w : [exc |-> w.exc, seen |-> w.seen]))))

\* (typeMask & SPECIAL_TYPES) != 0 && (typeMask & typeMask - 1) == 0
isSingleSpecialType(typeMask) ==
  typeMask \cap SPECIAL_TYPES # {} /\ Cardinality(typeMask) = 1

Lazy_checkEntryMatch(m, keyword, q, specificOnly, collect, coll) ==
  IF isSingleSpecialType(q.typeMask)
    THEN Lazy_checkEntryMatchForType(m, keyword, q, specificOnly, collect, coll)
    ELSE Lazy_checkEntryMatchByDomain(m, keyword, q, specificOnly, collect, coll)

(***************************************************************************)
(* The Matcher that keeps simple filters (every resource type, generic)    *)
(* apart from complex ones.  A bucket is the sequence of its filter texts  *)
(* in insertion order: a lone string when the length is 1, a Set otherwise.*)
(***************************************************************************)
Split_new ==
  [keywordByFilter |-> <<>>, simpleFiltersByKeyword |-> EmptyFn,
   complexFiltersByKeyword |-> EmptyFn, compiledPatternsByKeyword |-> EmptyFn,
   filterMapsByType |-> EmptyFn]

Split_addFilterByKeyword(filter, keyword, map) ==
  IF keyword \notin DOMAIN map THEN FnSet(map, keyword, <<filter>>)
  ELSE IF Contains(map[keyword], filter) THEN map
  ELSE FnSet(map, keyword, Append(map[keyword], filter))

\* A removeFilterByKeyword that leaves the bucket as it is.
Split_keepFilterByKeyword(filter, keyword, map) == map

Split_removeFilterByKeyword(filter, keyword, map) ==
  IF keyword \notin DOMAIN map THEN map
  ELSE IF SelectSeq(map[keyword], LAMBDA f : f # filter) = <<>> THEN FnDelete(map, keyword)
  ELSE FnSet(map, keyword, SelectSeq(map[keyword], LAMBDA f : f # filter))

\* A count that leaves out the complex filters of a keyword.
Split_countsSimple(m, candidates) ==
  [c \in SeqToSet(candidates) |-> Len(FnGet(m.simpleFiltersByKeyword, c, <<>>))]

Split_counts(m, candidates) ==
  [c \in SeqToSet(candidates) |->
     Len(FnGet(m.simpleFiltersByKeyword, c, <<>>))
     + Len(FnGet(m.complexFiltersByKeyword, c, <<>>))]

Split_findKeyword(m, text) ==
  findKeyword(patternCandidates(fromText(text)),
              Split_counts(m, patternCandidates(fromText(text))))

\* filter.contentType == RESOURCE_TYPES && filter.isGeneric()
isSimple(filter) == contentTypeOf(filter) = RESOURCE_TYPES /\ isGenericFilter(filter)

\* The type-specific maps after addFilterByKeyword (adding) or
\* removeFilterByKeyword for each special type of the filter, from the i-th on.
RECURSIVE Split_updateTypes(_, _, _, _, _, _)
Split_updateTypes(maps, types, i, text, keyword, adding) ==
  IF i > Len(types) THEN maps
  ELSE Split_updateTypes(
         IF adding
           THEN FnSet(maps, {types[i]},
                      Split_addFilterByKeyword(text, keyword, FnGet(maps, {types[i]}, EmptyFn)))
         ELSE IF {types[i]} \in DOMAIN maps
           THEN FnSet(maps, {types[i]},
                      Split_removeFilterByKeyword(text, keyword, maps[{types[i]}]))
         ELSE maps,
         types, i + 1, text, keyword, adding)

\* add with the keyword given; Matcher.add passes findKeyword(filter).
Split_addWithKeyword(m, text, keyword) ==
  IF MapHas(m.keywordByFilter, text) THEN m
  ELSE IF isSimple(fromText(text))
    THEN [m EXCEPT !.simpleFiltersByKeyword = Split_addFilterByKeyword(text, keyword, @),
                   !.keywordByFilter = MapSet(@, text, keyword),
                   !.compiledPatternsByKeyword = FnDelete(@, keyword)]
  ELSE [m EXCEPT !.complexFiltersByKeyword = Split_addFilterByKeyword(text, keyword, @),
                 !.keywordByFilter = MapSet(@, text, keyword),
                 !.filterMapsByType =
                   Split_updateTypes(@, enumerateTypes(contentTypeOf(fromText(text)),
                                                       SPECIAL_TYPES),
                                     1, text, keyword, TRUE)]

Split_add(m, text) == Split_addWithKeyword(m, text, Split_findKeyword(m, text))

Split_removeWithKeyword(m, text, keyword) ==
  IF isSimple(fromText(text))
    THEN [m EXCEPT !.simpleFiltersByKeyword = Split_removeFilterByKeyword(text, keyword, @),
                   !.keywordByFilter = MapDelete(@, text),
                   !.compiledPatternsByKeyword = FnDelete(@, keyword)]
  ELSE [m EXCEPT !.complexFiltersByKeyword = Split_removeFilterByKeyword(text, keyword, @),
                 !.keywordByFilter = MapDelete(@, text),
                 !.filterMapsByType =
                   Split_updateTypes(@, enumerateTypes(contentTypeOf(fromText(text)),
                                                       SPECIAL_TYPES),
                                     1, text, keyword, FALSE)]

Split_remove(m, text) ==
  IF ~MapHas(m.keywordByFilter, text) THEN m
  ELSE Split_removeWithKeyword(m, text, MapGet(m.keywordByFilter, text))

\* _checkEntryMatchSimpleQuickCheck: the compiled patterns are computed once
\* per keyword.  pass: go on to the loop over the filters.
Split_quickCheck(m, keyword, filters, q) ==
  IF keyword \in DOMAIN m.compiledPatternsByKeyword
    THEN [m |-> m, exc |-> FALSE,
          pass |-> \/ m.compiledPatternsByKeyword[keyword] = None
                   \/ CompiledPatterns_test(m.compiledPatternsByKeyword[keyword][1], q)]
  ELSE Let(compilePatterns(filters),
           LAMBDA c :
             IF c.exc THEN [m |-> m, exc |-> TRUE, pass |-> FALSE]
             ELSE [m |-> [m EXCEPT !.compiledPatternsByKeyword = FnSet(@, keyword, c.compiled)],
                   exc |-> FALSE,
                   pass |-> c.compiled = None \/ CompiledPatterns_test(c.compiled[1], q)])

\* _checkEntryMatchSimple: simple filters are matched against every resource
\* type and without a site key.
Split_checkEntryMatchSimple(m, keyword, q, collect, coll) ==
  IF keyword \notin DOMAIN m.simpleFiltersByKeyword THEN Out(m, None, coll, FALSE)
  ELSE Let(Split_quickCheck(m, keyword, m.simpleFiltersByKeyword[keyword], q),
           LAMBDA c :
             IF c.exc \/ ~c.pass THEN Out(c.m, None, coll, c.exc)
             ELSE WithMatcher(c.m,
                    scanFilters(m.simpleFiltersByKeyword[keyword], 1,
                                [q EXCEPT !.typeMask = RESOURCE_TYPES, !.sitekey = None],
                                FALSE, collect, coll)))

Split_checkEntryMatchForType(m, keyword, q, specificOnly, collect, coll) ==
  WithMatcher(m, scanFilters(FnGet(FnGet(m.filterMapsByType, q.typeMask, EmptyFn),
                                   keyword, <<>>),
                             1, q, specificOnly, collect, coll))

Split_checkEntryMatchComplex(m, keyword, q, specificOnly, collect, coll) ==
  WithMatcher(m, scanFilters(FnGet(m.complexFiltersByKeyword, keyword, <<>>),
                             1, q, specificOnly, collect, coll))

\* What checkEntryMatch does after the simple filters (s: their outcome).
Split_checkEntryMatchRest(s, keyword, q, specificOnly, collect) ==
  IF s.exc \/ s.hit # None THEN s
  ELSE IF isSingleSpecialType(q.typeMask)
    THEN Split_checkEntryMatchForType(s.m, keyword, q, specificOnly, collect, s.coll)
  ELSE Split_checkEntryMatchComplex(s.m, keyword, q, specificOnly, collect, s.coll)

\* A checkEntryMatch that looks at the simple filters of the keyword whatever
\* specificOnly says.
Split_checkEntryMatchAlsoSimple(m, keyword, q, specificOnly, collect, coll) ==
  Let(IF q.typeMask \cap RESOURCE_TYPES # {}
        THEN Split_checkEntryMatchSimple(m, keyword, q, collect, coll)
        ELSE Out(m, None, coll, FALSE),
      LAMBDA s : Split_checkEntryMatchRest(s, keyword, q, specificOnly, collect))

Split_checkEntryMatch(m, keyword, q, specificOnly, collect, coll) ==
  Let(IF ~specificOnly /\ q.typeMask \cap RESOURCE_TYPES # {}
        THEN Split_checkEntryMatchSimple(m, keyword, q, collect, coll)
        ELSE Out(m, None, coll, FALSE),
      LAMBDA s : Split_checkEntryMatchRest(s, keyword, q, specificOnly, collect))

(***************************************************************************)
(* The Matcher interface, for either form.                                 *)
(***************************************************************************)
Variants == {"lazy", "split"}

Matcher_new(v) == IF v = "lazy" THEN Lazy_new ELSE Split_new

Matcher_add(v, m, text) == IF v = "lazy" THEN Lazy_add(m, text) ELSE Split_add(m, text)

Matcher_remove(v, m, text) ==
  IF v = "lazy" THEN Lazy_remove(m, text) ELSE Split_remove(m, text)

Matcher_has(m, text) == MapHas(m.keywordByFilter, text)

checkEntryMatch(v, m, keyword, q, specificOnly, collect, coll) ==
  IF v = "lazy" THEN Lazy_checkEntryMatch(m, keyword, q, specificOnly, collect, coll)
  ELSE Split_checkEntryMatch(m, keyword, q, specificOnly, collect, coll)

\* The loop over the candidates that stops at the first hit.
RECURSIVE firstHit(_, _, _, _, _, _)
firstHit(v, m, candidates, i, q, specificOnly) ==
  IF i > Len(candidates) THEN Out(m, None, <<>>, FALSE)
  ELSE Let(checkEntryMatch(v, m, candidates[i], q, specificOnly, FALSE, <<>>),
           LAMBDA r : IF r.exc \/ r.hit # None THEN r
                      ELSE firstHit(v, r.m, candidates, i + 1, q, specificOnly))

Matcher_match(v, m, q) == firstHit(v, m, candidatesOf(q), 1, q, q.specificOnly)

(***************************************************************************)
(* CombinedMatcher.  What a call returns is a record of one shape: the     *)
(* filter of match (hit), the lists of search, the boolean of has and      *)
(* isWhitelisted.                                                          *)
(***************************************************************************)
Result(kind, hit, blocking, whitelist, value) ==
  [kind |-> kind, hit |-> hit, blocking |-> blocking, whitelist |-> whitelist,
   value |-> value]

MatchResult(hit) == Result("match", hit, None, None, FALSE)

SearchResult(blocking, whitelist) == Result("search", None, blocking, whitelist, FALSE)

BooleanResult(value) == Result("boolean", None, None, None, value)

\* Nothing returned: the call has no return value, or it threw.
NoResult == Result("none", None, None, None, FALSE)

CombinedMatcher_new(v) ==
  [blocking |-> Matcher_new(v), whitelist |-> Matcher_new(v), resultCache |-> EmptyFn]

CombinedMatcher_clear(v, cm) == CombinedMatcher_new(v)

CombinedMatcher_add(v, cm, text) ==
  IF fromText(text).type = "whitelist"
    THEN [cm EXCEPT !.whitelist = Matcher_add(v, @, text), !.resultCache = EmptyFn]
    ELSE [cm EXCEPT !.blocking = Matcher_add(v, @, text), !.resultCache = EmptyFn]

CombinedMatcher_remove(v, cm, text) ==
  IF fromText(text).type = "whitelist"
    THEN [cm EXCEPT !.whitelist = Matcher_remove(v, @, text), !.resultCache = EmptyFn]
    ELSE [cm EXCEPT !.blocking = Matcher_remove(v, @, text), !.resultCache = EmptyFn]

CombinedMatcher_has(cm, text) ==
  IF fromText(text).type = "whitelist" THEN Matcher_has(cm.whitelist, text)
  ELSE Matcher_has(cm.blocking, text)

\* The strings JavaScript concatenates into a cache key.
docDomainString(docDomain) == IF docDomain = None THEN "null" ELSE JoinWith(docDomain[1], ".")

sitekeyString(sitekey) == IF sitekey = None THEN "null" ELSE sitekey[1]

matchKey(q) ==
  Join(q.href) \o " " \o ToString(SumBits(q.typeMask)) \o " " \o docDomainString(q.docDomain)
  \o " " \o sitekeyString(q.sitekey) \o " " \o (IF q.specificOnly THEN "true" ELSE "false")

searchKey(q, filterType) == "* " \o matchKey(q) \o " " \o filterType

\* The end of _matchInternal, for the outcomes of the two loops.
matchOutcome(cm, b, w) ==
  [cm |-> [cm EXCEPT !.blocking = b.m, !.whitelist = w.m],
   res |-> IF b.exc \/ w.exc THEN NoResult
           ELSE MatchResult(IF w.hit # None THEN w.hit ELSE b.hit),
   exc |-> b.exc \/ w.exc]

matchInternal(v, cm, q) ==
  Let(IF q.typeMask \ WHITELISTING_TYPES # {}
        THEN firstHit(v, cm.blocking, candidatesOf(q), 1, q, q.specificOnly)
        ELSE Out(cm.blocking, None, <<>>, FALSE),
      LAMBDA b :
        IF ~b.exc /\ (b.hit # None \/ q.typeMask \cap WHITELISTING_TYPES # {})
          THEN matchOutcome(cm, b, firstHit(v, cm.whitelist, candidatesOf(q), 1, q, FALSE))
          ELSE matchOutcome(cm, b, Out(cm.whitelist, None, <<>>, FALSE)))

\* One round of the loop of _searchInternal, for the outcomes b and w of the
\* two checkEntryMatch calls on the i-th candidate.
RECURSIVE searchLoop(_, _, _, _, _, _, _, _, _)
searchNext(v, cm, candidates, i, q, searchBlocking, searchWhitelist, b, w) ==
  IF b.exc \/ w.exc
    THEN [cm |-> [cm EXCEPT !.blocking = b.m, !.whitelist = w.m],
          blocking |-> b.coll, whitelist |-> w.coll, exc |-> TRUE]
    ELSE searchLoop(v, [cm EXCEPT !.blocking = b.m, !.whitelist = w.m], candidates, i + 1,
                    q, searchBlocking, searchWhitelist, b.coll, w.coll)

\* The whitelist call of a round: not made when the blocking call threw.
searchWhitelistCall(v, cm, keyword, q, searchWhitelist, b, whitelist) ==
  IF searchWhitelist /\ ~b.exc
    THEN checkEntryMatch(v, cm.whitelist, keyword, q, FALSE, TRUE, whitelist)
    ELSE Out(cm.whitelist, None, whitelist, FALSE)

searchLoop(v, cm, candidates, i, q, searchBlocking, searchWhitelist, blocking, whitelist) ==
  IF i > Len(candidates)
    THEN [cm |-> cm, blocking |-> blocking, whitelist |-> whitelist, exc |-> FALSE]
  ELSE Let(IF searchBlocking
             THEN checkEntryMatch(v, cm.blocking, candidates[i], q, q.specificOnly,
                                  TRUE, blocking)
             ELSE Out(cm.blocking, None, blocking, FALSE),
           LAMBDA b :
             Let(searchWhitelistCall(v, cm, candidates[i], q, searchWhitelist, b, whitelist),
                 LAMBDA w : searchNext(v, cm, candidates, i, q, searchBlocking,
                                       searchWhitelist, b, w)))

\* hits, with the lists that filterType asks for.
searchOutcome(r, filterType) ==
  [cm |-> r.cm,
   res |-> IF r.exc THEN NoResult
           ELSE SearchResult(IF filterType \in {"blocking", "all"} THEN Some(r.blocking)
                             ELSE None,
                             IF filterType \in {"whitelist", "all"} THEN Some(r.whitelist)
                             ELSE None),
   exc |-> r.exc]

searchInternal(v, cm, q, filterType) ==
  searchOutcome(searchLoop(v, cm, candidatesOf(q), 1, q,
                           filterType \in {"blocking", "all"}
                           /\ q.typeMask \ WHITELISTING_TYPES # {},
                           filterType \in {"whitelist", "all"}, <<>>, <<>>),
                filterType)

\* What match and search do with the outcome r of the internal call: a
\* result is stored unless the call threw.
stored(r, key) ==
  IF r.exc THEN r
  ELSE [cm |-> [r.cm EXCEPT !.resultCache = FnSet(@, key, r.res)],
        res |-> r.res, exc |-> FALSE]

CombinedMatcher_match(v, cm, q) ==
  IF matchKey(q) \in DOMAIN cm.resultCache
    THEN [cm |-> cm, res |-> cm.resultCache[matchKey(q)], exc |-> FALSE]
    ELSE stored(matchInternal(v, cm, q), matchKey(q))

CombinedMatcher_search(v, cm, q, filterType) ==
  IF searchKey(q, filterType) \in DOMAIN cm.resultCache
    THEN [cm |-> cm, res |-> cm.resultCache[searchKey(q, filterType)], exc |-> FALSE]
    ELSE stored(searchInternal(v, cm, q, filterType), searchKey(q, filterType))

\* !!this._whitelist.match(url, typeMask, docDomain, sitekey)
whitelistedOutcome(cm, r) ==
  [cm |-> [cm EXCEPT !.whitelist = r.m],
   res |-> IF r.exc THEN NoResult ELSE BooleanResult(r.hit # None),
   exc |-> r.exc]

CombinedMatcher_isWhitelisted(v, cm, q) ==
  whitelistedOutcome(cm, Matcher_match(v, cm.whitelist, [q EXCEPT !.specificOnly = FALSE]))

(***************************************************************************)
(* Element hiding: the exceptions, kept per selector, and the emulation    *)
(* filters, kept in a FiltersByDomain under their texts.                   *)
(***************************************************************************)
\* An exception for the selector s on every domain.
X_gen == "#@#s"

\* An exception for s on ex.com.
X_ex == "ex.com#@#s"

\* An exception for s on www.ex.com.
X_www == "www.ex.com#@#s"

\* An exception for the selector t on ex.com.
X_t == "ex.com#@#t"

\* An emulation filter for s on ex.com.
M_ex == "ex.com#?#s"

\* An emulation filter for s that names ex.com and www.ex.com.
M_both == "ex.com,www.ex.com#?#s"

\* An emulation filter for t on ex.com but not on www.ex.com.
M_notwww == "ex.com,~www.ex.com#?#t"

\* An emulation filter for t on www.ex.com.
M_www == "www.ex.com#?#t"

ExceptionTexts == {X_gen, X_ex, X_www, X_t}

EmulationTexts == {M_ex, M_both, M_notwww, M_www}

Selectors == {"s", "t"}

\* The fields of a content filter that element hiding reads.
ElemHideBase(type, domains, selector) ==
  [type |-> type, domains |-> domains, sitekeys |-> None, selector |-> selector]

\* ContentFilter.fromText on the texts of the model.
ContentFilter_fromText(text) ==
  CASE text = X_gen -> ElemHideBase("elemhideexception", None, "s")
    [] text = X_ex -> ElemHideBase("elemhideexception",
                                   Some(<< <<Dom_ex, TRUE>>, <<Dom_blank, FALSE>> >>), "s")
    [] text = X_www -> ElemHideBase("elemhideexception",
                                    Some(<< <<Dom_www, TRUE>>, <<Dom_blank, FALSE>> >>), "s")
    [] text = X_t -> ElemHideBase("elemhideexception",
                                  Some(<< <<Dom_ex, TRUE>>, <<Dom_blank, FALSE>> >>), "t")
    [] text = M_ex -> ElemHideBase("elemhideemulation",
                                   Some(<< <<Dom_ex, TRUE>>, <<Dom_blank, FALSE>> >>), "s")
    [] text = M_both -> ElemHideBase("elemhideemulation",
                                     Some(<< <<Dom_ex, TRUE>>, <<Dom_www, TRUE>>,
                                             <<Dom_blank, FALSE>> >>), "s")
    [] text = M_notwww -> ElemHideBase("elemhideemulation",
                                       Some(<< <<Dom_ex, TRUE>>, <<Dom_www, FALSE>>,
                                               <<Dom_blank, FALSE>> >>), "t")
    [] text = M_www -> ElemHideBase("elemhideemulation",
                                    Some(<< <<Dom_www, TRUE>>, <<Dom_blank, FALSE>> >>), "t")

\* An event as a listener sees it: its name, the text of the exception it is
\* about, and what has(exception) answers when it is emitted.
Event(name, text, has) == [name |-> name, text |-> text, has |-> has]

ElemHideExceptions_new == [exceptionsBySelector |-> EmptyFn, exceptions |-> {}]

\* clear() empties both collections and emits "elemhideupdate".
ElemHideExceptions_clear(x) ==
  [x |-> ElemHideExceptions_new, events |-> <<Event("elemhideupdate", "", FALSE)>>]

ElemHideExceptions_has(x, text) == text \in x.exceptions

ElemHideExceptions_hasExceptions(x, selector) == selector \in DOMAIN x.exceptionsBySelector

\* The value add leaves for the selector: the text alone, or a Set.
addBySelector(map, selector, text) ==
  IF selector \notin DOMAIN map THEN FnSet(map, selector, [kind |-> "string", texts |-> <<text>>])
  ELSE IF map[selector].kind = "string"
    THEN FnSet(map, selector, [kind |-> "set", texts |-> Append(map[selector].texts, text)])
  ELSE FnSet(map, selector,
             [kind |-> "set",
              texts |-> IF Contains(map[selector].texts, text) THEN map[selector].texts
                        ELSE Append(map[selector].texts, text)])

\* What a listener is told by add or remove of the exception, after both
\* collections have been updated.
emitAfter(x, name, text) ==
  [x |-> x,
   events |-> <<Event(name, text, text \in x.exceptions),
                Event("elemhideupdate", text, text \in x.exceptions)>>]

\* An add that emits before the exception is in the set of exceptions.
ElemHideExceptions_addEmitFirst(x, text) ==
  IF text \in x.exceptions THEN [x |-> x, events |-> <<>>]
  ELSE [x |-> [exceptionsBySelector |->
                 addBySelector(x.exceptionsBySelector,
                               ContentFilter_fromText(text).selector, text),
               exceptions |-> x.exceptions \cup {text}],
        events |-> emitAfter(x, "added", text).events]

ElemHideExceptions_add(x, text) ==
  IF text \in x.exceptions THEN [x |-> x, events |-> <<>>]
  ELSE emitAfter([exceptionsBySelector |->
                    addBySelector(x.exceptionsBySelector,
                                  ContentFilter_fromText(text).selector, text),
                  exceptions |-> x.exceptions \cup {text}],
                 "added", text)

\* A removal that leaves a Set of one text in place.
removeBySelectorKeepSet(map, selector, text) ==
  IF selector \notin DOMAIN map THEN map
  ELSE IF map[selector].kind = "string" THEN FnDelete(map, selector)
  ELSE FnSet(map, selector,
             [kind |-> "set", texts |-> SelectSeq(map[selector].texts, LAMBDA t : t # text)])

\* The value remove leaves for the selector: nothing after a lone text, the
\* remaining text alone when the Set is down to one.
removeBySelector(map, selector, text) ==
  IF selector \notin DOMAIN map THEN map
  ELSE IF map[selector].kind = "string" THEN FnDelete(map, selector)
  ELSE IF Len(SelectSeq(map[selector].texts, LAMBDA t : t # text)) = 1
    THEN FnSet(map, selector,
               [kind |-> "string",
                texts |-> SelectSeq(map[selector].texts, LAMBDA t : t # text)])
  ELSE FnSet(map, selector,
             [kind |-> "set", texts |-> SelectSeq(map[selector].texts, LAMBDA t : t # text)])

ElemHideExceptions_remove(x, text) ==
  IF text \notin x.exceptions THEN [x |-> x, events |-> <<>>]
  ELSE emitAfter([exceptionsBySelector |->
                    removeBySelector(x.exceptionsBySelector,
                                     ContentFilter_fromText(text).selector, text),
                  exceptions |-> x.exceptions \ {text}],
                 "removed", text)

\* The first exception of the texts, from the i-th on, that is active on the
\* domain (None: null).
RECURSIVE firstActive(_, _, _)
firstActive(texts, i, domain) ==
  IF i > Len(texts) THEN None
  ELSE IF isActiveOnDomain(ContentFilter_fromText(texts[i]), Some(domain), None)
    THEN Some(texts[i])
  ELSE firstActive(texts, i + 1, domain)

\* A getException that looks at the first exception of the selector only.
ElemHideExceptions_getExceptionFirstOnly(x, selector, domain) ==
  IF selector \in DOMAIN x.exceptionsBySelector
    THEN firstActive(SubSeq(x.exceptionsBySelector[selector].texts, 1, 1), 1, domain)
    ELSE None

ElemHideExceptions_getException(x, selector, domain) ==
  IF selector \in DOMAIN x.exceptionsBySelector
    THEN firstActive(x.exceptionsBySelector[selector].texts, 1, domain)
    ELSE None

ElemHideEmulation_new == [filters |-> {}, filtersByDomain |-> <<>>]

ElemHideEmulation_clear(e) == ElemHideEmulation_new

ElemHideEmulation_has(e, text) == text \in e.filters

ElemHideEmulation_add(e, text) ==
  IF text \in e.filters THEN e
  ELSE [filters |-> e.filters \cup {text},
        filtersByDomain |->
          FiltersByDomain_add(e.filtersByDomain, text, FALSE,
                              domainsOf(ContentFilter_fromText(text)), 1).map]

ElemHideEmulation_remove(e, text) ==
  IF text \notin e.filters THEN e
  ELSE [filters |-> e.filters \ {text},
        filtersByDomain |->
          FiltersByDomain_remove(e.filtersByDomain, text,
                                 domainsOf(ContentFilter_fromText(text)), 1).map]

\* The inner loop of getFilters, over the entries held for one suffix.
RECURSIVE getFiltersEntries(_, _, _, _, _, _)
getFiltersEntries(entries, j, excluded, filters, x, domain) ==
  IF j > Len(entries) THEN [excluded |-> excluded, filters |-> filters]
  ELSE IF ~entries[j][2]
    THEN getFiltersEntries(entries, j + 1, excluded \cup {entries[j][1]}, filters, x, domain)
  ELSE IF entries[j][1] \notin excluded
          /\ ElemHideExceptions_getException(
               x, ContentFilter_fromText(entries[j][1]).selector, domain) = None
    THEN getFiltersEntries(entries, j + 1, excluded, Append(filters, entries[j][1]),
                           x, domain)
  ELSE getFiltersEntries(entries, j + 1, excluded, filters, x, domain)

\* The loop of getFilters over the suffixes of the domain.
RECURSIVE getFiltersSuffixes(_, _, _, _, _, _, _)
getFiltersSuffixes(filtersByDomain, suffixes, i, excluded, filters, x, domain) ==
  IF i > Len(suffixes) THEN filters
  ELSE IF ~MapHas(filtersByDomain, suffixes[i])
    THEN getFiltersSuffixes(filtersByDomain, suffixes, i + 1, excluded, filters, x, domain)
  ELSE Let(getFiltersEntries(entriesOf(MapGet(filtersByDomain, suffixes[i])), 1,
                             excluded, filters, x, domain),
           LAMBDA r : getFiltersSuffixes(filtersByDomain, suffixes, i + 1,
                                         r.excluded, r.filters, x, domain))

\* ElemHideEmulation.getFilters(domain), x being the exceptions.
ElemHideEmulation_getFilters(e, x, domain) ==
  getFiltersSuffixes(e.filtersByDomain, domainSuffixes(domain, FALSE), 1, {}, <<>>, x, domain)

(***************************************************************************)
(* The state machine: one CombinedMatcher of each form, driven by the same *)
(* calls, and the record of the last call with what it returned.  Beside   *)
(* them a FiltersByDomain that is called with filter texts: the texts it   *)
(* was given and has not been asked to remove, and its last call (had:     *)
(* the text was among them; removed: the filters removed since the last    *)
(* add).  And the element hiding exceptions with the emulation filters,    *)
(* and their last call: the events it emitted and the filters it returned. *)
(***************************************************************************)
VARIABLES lazy, split, last, filtersByDomain, indexed, call,
          exceptions, emulation, hideCall

vars == <<lazy, split, last, filtersByDomain, indexed, call,
          exceptions, emulation, hideCall>>

hideVars == <<exceptions, emulation, hideCall>>

matcherVars == <<lazy, split, last>>

indexVars == <<filtersByDomain, indexed, call>>

\* The filters FiltersByDomain is called with, each with its own domains.
IndexedTexts == {F_ad, F_dom, F_ex, F_notwww, F_www}

\* had: whether the matcher held the filter of an add, remove or has call.
Call(op, text, q, filterType, had, l, s) ==
  [op |-> op, text |-> text, q |-> q, filterType |-> filterType, had |-> had,
   lazy |-> [res |-> l.res, exc |-> l.exc], split |-> [res |-> s.res, exc |-> s.exc]]

Returned(res) == [res |-> res, exc |-> FALSE]

\* The last call of element hiding: had: the text was known before the call;
\* events: what it emitted; filters: what getFilters returned.
HideCall(op, text, had, events, filters) ==
  [op |-> op, text |-> text, had |-> had, events |-> events, filters |-> filters]

Init ==
  /\ lazy = CombinedMatcher_new("lazy")
  /\ split = CombinedMatcher_new("split")
  /\ last = Call("new", "", Q_script, "all", FALSE, Returned(NoResult), Returned(NoResult))
  /\ filtersByDomain = <<>>
  /\ indexed = {}
  /\ call = [op |-> "new", text |-> "", had |-> FALSE, removed |-> 0]
  /\ exceptions = ElemHideExceptions_new
  /\ emulation = ElemHideEmulation_new
  /\ hideCall = HideCall("new", "", FALSE, <<>>, <<>>)

\* The number of filters the matcher holds (the same in both forms).
size == Len(split.blocking.keywordByFilter) + Len(split.whitelist.keywordByFilter)

\* Whether the result cache has room for key, or holds it already.
hasRoom(cm, key) ==
  key \in DOMAIN cm.resultCache \/ Cardinality(DOMAIN cm.resultCache) < MaxCached

Add(text) ==
  /\ size < MaxFilters \/ CombinedMatcher_has(split, text)
  /\ lazy' = CombinedMatcher_add("lazy", lazy, text)
  /\ split' = CombinedMatcher_add("split", split, text)
  /\ last' = Call("add", text, Q_script, "all", CombinedMatcher_has(split, text),
                  Returned(NoResult), Returned(NoResult))
  /\ UNCHANGED <<indexVars, hideVars>>

Remove(text) ==
  /\ lazy' = CombinedMatcher_remove("lazy", lazy, text)
  /\ split' = CombinedMatcher_remove("split", split, text)
  /\ last' = Call("remove", text, Q_script, "all", CombinedMatcher_has(split, text),
                  Returned(NoResult), Returned(NoResult))
  /\ UNCHANGED <<indexVars, hideVars>>

Clear ==
  /\ lazy' = CombinedMatcher_clear("lazy", lazy)
  /\ split' = CombinedMatcher_clear("split", split)
  /\ last' = Call("clear", "", Q_script, "all", FALSE, Returned(NoResult), Returned(NoResult))
  /\ UNCHANGED <<indexVars, hideVars>>

Has(text) ==
  /\ last' = Call("has", text, Q_script, "all", CombinedMatcher_has(split, text),
                  Returned(BooleanResult(CombinedMatcher_has(lazy, text))),
                  Returned(BooleanResult(CombinedMatcher_has(split, text))))
  /\ UNCHANGED <<lazy, split>>
  /\ UNCHANGED <<indexVars, hideVars>>

\* A query: l and s are what the call does to each form.
Answer(op, q, filterType, l, s) ==
  /\ lazy' = l.cm
  /\ split' = s.cm
  /\ last' = Call(op, "", q, filterType, FALSE, l, s)
  /\ UNCHANGED <<indexVars, hideVars>>

Match(q) ==
  /\ hasRoom(lazy, matchKey(q)) /\ hasRoom(split, matchKey(q))
  /\ Answer("match", q, "all", CombinedMatcher_match("lazy", lazy, q),
            CombinedMatcher_match("split", split, q))

Search(q, filterType) ==
  /\ hasRoom(lazy, searchKey(q, filterType)) /\ hasRoom(split, searchKey(q, filterType))
  /\ Answer("search", q, filterType, CombinedMatcher_search("lazy", lazy, q, filterType),
            CombinedMatcher_search("split", split, q, filterType))

IsWhitelisted(q) ==
  Answer("isWhitelisted", q, "all", CombinedMatcher_isWhitelisted("lazy", lazy, q),
         CombinedMatcher_isWhitelisted("split", split, q))

Next ==
  \/ \E text \in URLFilterTexts : Add(text)
  \/ \E text \in URLFilterTexts : Remove(text)
  \/ Clear
  \/ \E text \in URLFilterTexts : Has(text)
  \/ \E q \in Queries : Match(q)
  \/ \E q \in Queries : \E filterType \in FilterTypes : Search(q, filterType)
  \/ \E q \in Queries : IsWhitelisted(q)

Spec == Init /\ [][Next]_vars

\* The same machine when the caller also hands in filters of other kinds.
NextKinds ==
  \/ Next
  \/ \E text \in InvalidTexts : Add(text)
  \/ \E text \in InvalidTexts : Remove(text)

SpecKinds == Init /\ [][NextKinds]_vars

\* The same machine on filters of special types and on type masks made of
\* whitelisting types.
NextMasks ==
  \/ \E text \in {F_ad, B_doc, W_doc, W_eh} : Add(text) \/ Remove(text)
  \/ Clear
  \/ \E q \in {Q_script, Q_document, Q_masks} : Match(q)
  \/ \E q \in {Q_script, Q_document, Q_masks} : \E filterType \in FilterTypes :
       Search(q, filterType)

SpecMasks == Init /\ [][NextMasks]_vars

\* The same machine on filters whose patterns give findKeyword a choice.
NextKeywords ==
  \/ \E text \in {F_ad, F_key, F_adbn, F_abn, F_long, F_com, F_http} : Add(text) \/ Remove(text)
  \/ Clear
  \/ Match(Q_script)

SpecKeywords == Init /\ [][NextKeywords]_vars

\* filter.isActiveOnDomain(docDomain, sitekey) on a filter of the model.
IsActiveOnDomain(text, docDomain, sitekey) ==
  /\ call' = [op |-> "isActiveOnDomain", text |-> text, docDomain |-> docDomain,
               sitekey |-> sitekey,
               active |-> isActiveOnDomain(fromText(text), docDomain, sitekey)]
  /\ UNCHANGED <<lazy, split, last, filtersByDomain, indexed, hideVars>>

\* The host names of documents (a trailing dot is an empty last label) and
\* the site keys that requests give.
NextFilter ==
  \E text \in URLFilterTexts \cup IndexedTexts \cup {B_doc, W_eh} :
    \E docDomain \in {None, Some(Dom_blank), Some(Dom_ex), Some(Dom_www),
                      Some(<<"ex", "com", "">>), Some(<<"www", "ex", "com", "">>),
                      Some(<<"a", "www", "ex", "com">>), Some(<<"org">>), Some(<<"", "">>)} :
      \E sitekey \in {None, Some("k"), Some("K"), Some("x")} :
        IsActiveOnDomain(text, docDomain, sitekey)

\* A filter on its own, asked whether it is active on a domain.
SpecFilter == Init /\ [][NextFilter]_vars

\* filtersByDomain.add(filter.text, filter.domains)
IndexAdd(text) ==
  /\ filtersByDomain' =
       FiltersByDomain_add(filtersByDomain, text, FALSE, domainsOf(fromText(text)), 1).map
  /\ indexed' = indexed \cup {text}
  /\ call' = [op |-> "add", text |-> text, had |-> text \in indexed, removed |-> 0]
  /\ UNCHANGED <<matcherVars, hideVars>>

\* filtersByDomain.remove(filter.text, filter.domains)
IndexRemove(text) ==
  /\ filtersByDomain' =
       FiltersByDomain_remove(filtersByDomain, text, domainsOf(fromText(text)), 1).map
  /\ indexed' = indexed \ {text}
  /\ call' = [op |-> "remove", text |-> text, had |-> text \in indexed,
               removed |-> IF text \in indexed THEN call.removed + 1 ELSE call.removed]
  /\ UNCHANGED <<matcherVars, hideVars>>

\* filtersByDomain.clear()
IndexClear ==
  /\ filtersByDomain' = FiltersByDomain_clear(filtersByDomain)
  /\ indexed' = {}
  /\ call' = [op |-> "clear", text |-> "", had |-> FALSE, removed |-> 0]
  /\ UNCHANGED <<matcherVars, hideVars>>

NextIndex ==
  \/ \E text \in IndexedTexts : IndexAdd(text)
  \/ \E text \in IndexedTexts : IndexRemove(text)
  \/ IndexClear

\* The FiltersByDomain on its own, under any sequence of its calls.
SpecIndex == Init /\ [][NextIndex]_vars

\* elemHideExceptions.add(exception)
ExceptionAdd(text) ==
  /\ exceptions' = ElemHideExceptions_add(exceptions, text).x
  /\ hideCall' = HideCall("add", text, ElemHideExceptions_has(exceptions, text),
                          ElemHideExceptions_add(exceptions, text).events, <<>>)
  /\ UNCHANGED <<matcherVars, indexVars, emulation>>

\* elemHideExceptions.remove(exception)
ExceptionRemove(text) ==
  /\ exceptions' = ElemHideExceptions_remove(exceptions, text).x
  /\ hideCall' = HideCall("remove", text, ElemHideExceptions_has(exceptions, text),
                          ElemHideExceptions_remove(exceptions, text).events, <<>>)
  /\ UNCHANGED <<matcherVars, indexVars, emulation>>

\* elemHideExceptions.clear()
ExceptionClear ==
  /\ exceptions' = ElemHideExceptions_clear(exceptions).x
  /\ hideCall' = HideCall("clear", "", FALSE, ElemHideExceptions_clear(exceptions).events, <<>>)
  /\ UNCHANGED <<matcherVars, indexVars, emulation>>

\* elemHideEmulation.add(filter)
EmulationAdd(text) ==
  /\ emulation' = ElemHideEmulation_add(emulation, text)
  /\ hideCall' = HideCall("emulationAdd", text, ElemHideEmulation_has(emulation, text),
                          <<>>, <<>>)
  /\ UNCHANGED <<matcherVars, indexVars, exceptions>>

\* elemHideEmulation.remove(filter)
EmulationRemove(text) ==
  /\ emulation' = ElemHideEmulation_remove(emulation, text)
  /\ hideCall' = HideCall("emulationRemove", text, ElemHideEmulation_has(emulation, text),
                          <<>>, <<>>)
  /\ UNCHANGED <<matcherVars, indexVars, exceptions>>

\* elemHideEmulation.clear()
EmulationClear ==
  /\ emulation' = ElemHideEmulation_clear(emulation)
  /\ hideCall' = HideCall("emulationClear", "", FALSE, <<>>, <<>>)
  /\ UNCHANGED <<matcherVars, indexVars, exceptions>>

\* The domains getFilters is asked about.
HideDomains == {Dom_ex, Dom_www, <<"a", "www", "ex", "com">>, <<"org">>}

\* elemHideEmulation.getFilters(domain)
GetFilters(domain) ==
  /\ hideCall' = HideCall("getFilters", JoinWith(domain, "."), FALSE, <<>>,
                          ElemHideEmulation_getFilters(emulation, exceptions, domain))
  /\ UNCHANGED <<matcherVars, indexVars, exceptions, emulation>>

NextHide ==
  \/ \E text \in ExceptionTexts : ExceptionAdd(text)
  \/ \E text \in ExceptionTexts : ExceptionRemove(text)
  \/ ExceptionClear
  \/ \E text \in EmulationTexts : EmulationAdd(text)
  \/ \E text \in EmulationTexts : EmulationRemove(text)
  \/ EmulationClear
  \/ \E domain \in HideDomains : GetFilters(domain)

SpecHide == Init /\ [][NextHide]_vars

(***************************************************************************)
(* Properties.                                                             *)
(***************************************************************************)
\* The CombinedMatcher of a form in the current state.
Form(v) == IF v = "lazy" THEN lazy ELSE split

\* What a caller observes of a call: the value returned, or that it threw.
Observed(r) == [res |-> r.res, exc |-> r.exc]

\* A filter that matches the query and that the query does not ask to skip:
\* whitelist filters are always looked at, blocking filters unless the query
\* is specific-only and the filter is generic.
Eligible(text, q) ==
  /\ matchFilter(fromText(text), q)
  /\ text \in BlockingTexts => ~(q.specificOnly /\ isGeneric(text))

\* match returned a whitelist filter.
ReturnsWhitelist(r) == ~r.exc /\ r.res.hit # None /\ r.res.hit[1] \in WhitelistTexts

\* C1: whenever the matcher holds a blocking filter and a whitelist filter that
\* both match a request, CombinedMatcher.match returns a whitelist filter for it.
C1_WhitelistPrecedence ==
  \A v \in Variants : \A q \in Queries :
    (/\ \E b \in BlockingTexts : CombinedMatcher_has(Form(v), b) /\ Eligible(b, q)
     /\ \E w \in WhitelistTexts : CombinedMatcher_has(Form(v), w) /\ Eligible(w, q))
    => ReturnsWhitelist(CombinedMatcher_match(v, Form(v), q))

\* The last query, asked again in the current state.
Repeated(v) ==
  IF last.op = "match" THEN CombinedMatcher_match(v, Form(v), last.q)
  ELSE CombinedMatcher_search(v, Form(v), last.q, last.filterType)

\* The last query, evaluated in the current state without the result cache.
Uncached(v) ==
  IF last.op = "match" THEN matchInternal(v, Form(v), last.q)
  ELSE searchInternal(v, Form(v), last.q, last.filterType)

\* C2: what match or search has just returned is what the same query returns
\* when it is repeated, and what an evaluation without the cache gives.
C2_CacheTransparency ==
  last.op \in {"match", "search"} =>
    \A v \in Variants :
      /\ Observed(Repeated(v)) = last[v]
      /\ Observed(Uncached(v)) = last[v]

\* search lists the filter, among the blocking or the whitelist filters.
Lists(r, text) ==
  /\ ~r.exc
  /\ IF text \in WhitelistTexts THEN Contains(r.res.whitelist[1], text)
     ELSE Contains(r.res.blocking[1], text)

\* C3: every filter the matcher holds is listed by search for every request it
\* matches, whatever was asked before the filter was added.
C3_AddIsObserved ==
  \A v \in Variants : \A text \in URLFilterTexts : \A q \in Queries :
    (CombinedMatcher_has(Form(v), text) /\ Eligible(text, q))
    => Lists(CombinedMatcher_search(v, Form(v), q, "all"), text)

\* C4: no call of match, search or isWhitelisted throws.
C4_NoException == ~last.lazy.exc /\ ~last.split.exc

\* add(f) followed by remove(f).
AddRemove(v, cm, text) == CombinedMatcher_remove(v, CombinedMatcher_add(v, cm, text), text)

\* match and search answer every query alike in the two states.
SameAnswers(v, cm1, cm2) ==
  \A q \in Queries :
    /\ Observed(CombinedMatcher_match(v, cm1, q)) = Observed(CombinedMatcher_match(v, cm2, q))
    /\ Observed(CombinedMatcher_search(v, cm1, q, "all"))
       = Observed(CombinedMatcher_search(v, cm2, q, "all"))

\* C5: for a filter the matcher does not hold, add followed by remove gives a
\* state without the filter in which match and search answer as before.
C5_AddRemoveInverse ==
  \A v \in Variants : \A text \in URLFilterTexts :
    ~CombinedMatcher_has(Form(v), text) =>
      /\ ~CombinedMatcher_has(AddRemove(v, Form(v), text), text)
      /\ SameAnswers(v, Form(v), AddRemove(v, Form(v), text))

\* The two matchers of a form in the current state.
MatchersOf(v) == {Form(v).blocking, Form(v).whitelist}

\* add of a filter held and remove of a filter not held leave the matcher as
\* it is; a second add or remove changes nothing after the first.
Idempotent(v, m, text) ==
  /\ Matcher_has(m, text) => Matcher_add(v, m, text) = m
  /\ ~Matcher_has(m, text) => Matcher_remove(v, m, text) = m
  /\ Matcher_add(v, Matcher_add(v, m, text), text) = Matcher_add(v, m, text)
  /\ Matcher_remove(v, Matcher_remove(v, m, text), text) = Matcher_remove(v, m, text)

\* C6: Matcher.add of a filter already present and Matcher.remove of a filter
\* absent leave the index unchanged, so add;add is add and remove;remove is
\* remove.
C6_Idempotence ==
  \A v \in Variants : \A m \in MatchersOf(v) : \A text \in URLFilterTexts :
    Idempotent(v, m, text)

\* A filter already held has just been added again while another filter that
\* shares its keyword is held too.
C6_Witness ==
  /\ last.op = "add" /\ last.had
  /\ last.text = F_ad
  /\ CombinedMatcher_has(lazy, F_key) /\ CombinedMatcher_has(split, F_key)

\* The filter returned, if any, is not generic.
NotGeneric(hit) == hit = None \/ ~isGeneric(hit[1])

\* C7 as stated: with specificOnly, neither Matcher.match nor
\* CombinedMatcher.match returns a generic filter.
C7_SpecificOnlyNeverGeneric ==
  \A v \in Variants : \A q \in Queries :
    q.specificOnly =>
      /\ \A m \in MatchersOf(v) : NotGeneric(Matcher_match(v, m, q).hit)
      /\ NotGeneric(CombinedMatcher_match(v, Form(v), q).res.hit)

\* C7: with specificOnly, Matcher.match returns no generic filter and
\* CombinedMatcher.match returns no generic blocking filter; the whitelist
\* filter it returns may be generic.
C7_SpecificOnlyBlocking ==
  \A v \in Variants : \A q \in Queries :
    q.specificOnly =>
      /\ \A m \in MatchersOf(v) : NotGeneric(Matcher_match(v, m, q).hit)
      /\ \/ NotGeneric(CombinedMatcher_match(v, Form(v), q).res.hit)
         \/ CombinedMatcher_match(v, Form(v), q).res.hit[1] \in WhitelistTexts

\* A specific-only match has just returned the generic whitelist filter, in
\* both forms, while a generic blocking filter that matches is held.
C7_Witness ==
  /\ last.op = "match" /\ last.q.specificOnly
  /\ last.lazy.res.hit = Some(W_bn) /\ last.split.res.hit = Some(W_bn)
  /\ isGeneric(W_bn)

\* The filters a form holds in the current state.
Held(v) == {text \in FilterTexts : CombinedMatcher_has(Form(v), text)}

\* The orders in which the filters of a set can be added.
Orders(texts) ==
  {o \in [1..Cardinality(texts) -> texts] : \A i, j \in DOMAIN o : o[i] = o[j] => i = j}

\* The matcher after the filters of an order are added to an empty one.
RECURSIVE AddAll(_, _, _)
AddAll(v, cm, order) ==
  IF order = <<>> THEN cm ELSE AddAll(v, CombinedMatcher_add(v, cm, Head(order)), Tail(order))

\* C8: the matchers that two orders of adding the same filters to an empty
\* matcher give return the same match and search results for every request.
C8_OrderIndependence ==
  \A v \in Variants : \A o1, o2 \in Orders(Held(v)) :
    SameAnswers(v, AddAll(v, CombinedMatcher_new(v), o1),
                   AddAll(v, CombinedMatcher_new(v), o2))

\* The keywords findKeyword can choose for a filter: the candidates of its
\* pattern that are not bad keywords, the empty keyword when there is none.
KeywordChoices(text) ==
  IF \E k \in SeqToSet(patternCandidates(fromText(text))) : ~isBadKeyword(k)
    THEN {k \in SeqToSet(patternCandidates(fromText(text))) : ~isBadKeyword(k)}
    ELSE {""}

\* The keyword assignments that hold the filters of the given one in its order.
Assignments(keywordByFilter) ==
  {a \in [DOMAIN keywordByFilter ->
            {<<text, k>> : text \in FilterTexts, k \in UNION {KeywordChoices(t) : t \in FilterTexts}}] :
     \A i \in DOMAIN a : /\ a[i][1] = keywordByFilter[i][1]
                         /\ a[i][2] \in KeywordChoices(a[i][1])}

Matcher_addWithKeyword(v, m, text, keyword) ==
  IF v = "lazy" THEN Lazy_addWithKeyword(m, text, keyword)
  ELSE Split_addWithKeyword(m, text, keyword)

\* The matcher that holds the filters of an assignment under its keywords.
RECURSIVE WithKeywords(_, _, _)
WithKeywords(v, m, assignment) ==
  IF assignment = <<>> THEN m
  ELSE WithKeywords(v, Matcher_addWithKeyword(v, m, Head(assignment)[1], Head(assignment)[2]),
                    Tail(assignment))

\* match returns the same for every query in the two matchers.
SameMatch(v, m1, m2) ==
  \A q \in Queries :
    /\ Matcher_match(v, m1, q).hit = Matcher_match(v, m2, q).hit
    /\ Matcher_match(v, m1, q).exc = Matcher_match(v, m2, q).exc

\* C9: a matcher that holds the filters of the current one under other
\* candidate keywords returns the same match result for every request.
C9_KeywordInvariance ==
  \A v \in Variants : \A m \in MatchersOf(v) :
    \A a \in Assignments(m.keywordByFilter) :
      SameMatch(v, WithKeywords(v, Matcher_new(v), m.keywordByFilter),
                   WithKeywords(v, Matcher_new(v), a))

\* C10: the matcher never holds an invalid filter, whatever was added.
C10_InvalidNeverAdmitted ==
  \A v \in Variants : \A text \in InvalidTexts :
    ~CombinedMatcher_has(Form(v), text)

\* The maps from keywords to buckets that make up the index of a matcher: the
\* one map of the lazy form, the simple and the complex map of the split form.
IndexMaps(v, m) ==
  IF v = "lazy" THEN <<m.filtersByKeyword>>
  ELSE <<m.simpleFiltersByKeyword, m.complexFiltersByKeyword>>

\* The places (map, keyword, position) at which the index holds a filter.
Places(maps, text) ==
  {p \in (DOMAIN maps) \X (UNION {DOMAIN maps[b] : b \in DOMAIN maps}) \X (1..MaxFilters) :
     /\ p[2] \in DOMAIN maps[p[1]]
     /\ p[3] <= Len(maps[p[1]][p[2]])
     /\ maps[p[1]][p[2]][p[3]] = text}

\* A filter held is at one place, under its recorded keyword; a filter not
\* held is at none.
IndexedOnce(m, maps, text) ==
  IF Matcher_has(m, text)
    THEN /\ Cardinality(Places(maps, text)) = 1
         /\ \A p \in Places(maps, text) : p[2] = MapGet(m.keywordByFilter, text)
    ELSE Places(maps, text) = {}

\* The lazy form has not built its buckets since the last add or remove.
NotBuilt(v, m) == v = "lazy" /\ DOMAIN m.filtersByKeyword = {}

\* C11: in every matcher each filter held is in exactly one bucket, under the
\* keyword recorded for it, and no bucket holds a filter that is not held
\* (the lazy form builds its buckets on the first query).
C11_OneKeywordOneBucket ==
  \A v \in Variants : \A m \in MatchersOf(v) :
    NotBuilt(v, m) \/ \A text \in FilterTexts : IndexedOnce(m, IndexMaps(v, m), text)

\* Both forms hold two filters under two keywords, the lazy form has built
\* its buckets and the split form holds a simple and a complex filter.
C11_Witness ==
  /\ Cardinality(DOMAIN lazy.blocking.filtersByKeyword) = 2
  /\ DOMAIN split.blocking.simpleFiltersByKeyword # {}
  /\ DOMAIN split.blocking.complexFiltersByKeyword # {}

\* C11 as stated: in every state, built or not, each filter held is in
\* exactly one bucket under its recorded keyword.
C11_AlwaysInOneBucket ==
  \A v \in Variants : \A m \in MatchersOf(v) :
    \A text \in FilterTexts : IndexedOnce(m, IndexMaps(v, m), text)

\* The filters of a kind that the matcher holds and that search is to list.
Matching(cm, texts, q) ==
  {text \in texts : CombinedMatcher_has(cm, text) /\ Eligible(text, q)}

\* The list is there when it was asked for, and holds each of the filters
\* once and nothing else.
ListsExactly(list, asked, texts) ==
  IF asked
    THEN /\ list # None
         /\ SeqToSet(list[1]) = texts
         /\ Len(list[1]) = Cardinality(texts)
    ELSE list = None

\* What search is to return for a query and a filter type.
SearchIsExact(r, cm, q, filterType) ==
  /\ ~r.exc
  /\ ListsExactly(r.res.blocking, filterType \in {"blocking", "all"},
                  Matching(cm, BlockingTexts, q))
  /\ ListsExactly(r.res.whitelist, filterType \in {"whitelist", "all"},
                  Matching(cm, WhitelistTexts, q))

\* C12: search returns, in the lists asked for, exactly the blocking filters
\* that match (not generic when specificOnly) and the whitelist filters that
\* match.
C12_SearchIsExact ==
  \A v \in Variants : \A q \in Queries : \A filterType \in FilterTypes :
    SearchIsExact(CombinedMatcher_search(v, Form(v), q, filterType), Form(v), q, filterType)

\* C13: the two forms of the matcher, after the same adds and removes, return
\* the same to the same match or search.
C13_FormsAgree ==
  last.op \in {"match", "search"} => last.lazy = last.split

\* The domains the index has a key for.
IndexDomains == {filtersByDomain[i][1] : i \in DOMAIN filtersByDomain}

\* The filters an entry of the index holds.
TextsOf(entry) ==
  IF entry.kind = "map" THEN {entry.entries[j][1] : j \in DOMAIN entry.entries}
  ELSE {entry.text}

\* An index without domains: size is 0, entries() yields nothing and has(d) is
\* false for every domain.
IsEmptyIndex(map) == Len(map) = 0 /\ \A d \in {Dom_blank, Dom_ex, Dom_www} : ~MapHas(map, d)

\* C14: when every filter that was added to a FiltersByDomain has been removed
\* again, in whatever order, the index is empty; and the index never holds a
\* filter that has been removed.
C14_RoundTrip ==
  /\ indexed = {} => IsEmptyIndex(filtersByDomain)
  /\ \A d \in IndexDomains : TextsOf(MapGet(filtersByDomain, d)) \subseteq indexed

\* Three filters were added and have just been removed one after the other.
C14_Witness == call.op = "remove" /\ call.had /\ call.removed = 3 /\ indexed = {}

\* The pairs (domain, include) that add stores for a filter: all of its
\* domains but the blank one when it is excluded.
StoredPairs(text) ==
  {p \in SeqToSet(domainsOf(fromText(text))) : ~(p[1] = Dom_blank /\ ~p[2])}

\* get(domain) reflects the pair (text, include): it is the bare text, and
\* include is true, or it is a FilterMap whose value for text is include.
Reflects(map, text, domain, include) ==
  /\ MapHas(map, domain)
  /\ \/ /\ MapGet(map, domain).kind = "string"
        /\ MapGet(map, domain).text = text
        /\ include
     \/ /\ MapGet(map, domain).kind = "map"
        /\ MapHas(MapGet(map, domain).entries, text)
        /\ MapGet(MapGet(map, domain).entries, text) = include

\* C15: after every add, and for every filter added and not removed since,
\* get(domain) reflects each pair of the filter's domains other than the
\* excluded blank domain.
C15_GetReflectsAdd ==
  \A text \in indexed : \A p \in StoredPairs(text) :
    Reflects(filtersByDomain, text, p[1], p[2])

\* A filter has just been added to a domain that held an excluded filter, so
\* that the domain maps to a FilterMap with both flags.
C15_Witness ==
  /\ call.op = "add" /\ call.text = F_www
  /\ MapHas(filtersByDomain, Dom_www)
  /\ MapGet(filtersByDomain, Dom_www).kind = "map"
  /\ MapHas(MapGet(filtersByDomain, Dom_www).entries, F_dom)
  /\ \E d \in IndexDomains : MapGet(filtersByDomain, d).kind = "string"

\* The index after add(text, domains) followed by remove(text, domains).
AddThenRemove(map, text) ==
  FiltersByDomain_remove(
    FiltersByDomain_add(map, text, FALSE, domainsOf(fromText(text)), 1).map,
    text, domainsOf(fromText(text)), 1).map

\* C16: for a filter the index does not hold, add followed by remove gives the
\* index back: the same domains in the same order, each with the same form
\* and the same entries in the same order.
C16_RemoveUndoesAdd ==
  \A text \in IndexedTexts \ indexed : AddThenRemove(filtersByDomain, text) = filtersByDomain

\* A filter that shared a domain with another one, and had a domain of its
\* own, has just been removed: the other one is left as a bare filter.
C16_Witness ==
  /\ call.op = "remove" /\ call.text = F_dom /\ call.had /\ call.removed = 1
  /\ filtersByDomain = << <<Dom_ex, BareFilter(F_ex, FALSE)>> >>

\* C17: no domain maps to a FilterMap whose only entry is an included filter;
\* that filter is stored bare.
C17_NoSingletonIncluded ==
  \A d \in IndexDomains :
    MapGet(filtersByDomain, d).kind = "map" =>
      ~(Len(MapGet(filtersByDomain, d).entries) = 1 /\ MapGet(filtersByDomain, d).entries[1][2])

\* A remove has just left one included filter in a domain that held two, and
\* one excluded filter alone in another domain.
C17_Witness ==
  /\ call.op = "remove" /\ call.had
  /\ \E d \in IndexDomains :
       /\ MapGet(filtersByDomain, d).kind = "string"
       /\ MapGet(filtersByDomain, d).text # call.text
       /\ \E p \in StoredPairs(call.text) : p[1] = d
  /\ \E d \in IndexDomains :
       /\ MapGet(filtersByDomain, d).kind = "map"
       /\ Len(MapGet(filtersByDomain, d).entries) = 1

\* C18: every domain the index has a key for maps to a bare filter or to a
\* FilterMap with at least one entry, so that size counts the domains that
\* hold a filter.
C18_NoEmptyEntry ==
  \A d \in IndexDomains :
    /\ TextsOf(MapGet(filtersByDomain, d)) # {}
    /\ MapGet(filtersByDomain, d).kind = "map" => Len(MapGet(filtersByDomain, d).entries) >= 1
    /\ Len(filtersByDomain) = Cardinality(IndexDomains)

\* The last filter of a domain that mapped to a FilterMap has just been
\* removed, and the index has no key for the domain any more.
C18_Witness ==
  /\ call.op = "remove" /\ call.had /\ call.text = F_notwww
  /\ ~MapHas(filtersByDomain, Dom_www)
  /\ indexed # {}

\* The index after add(text, domains).
AfterAdd(map, text) == FiltersByDomain_add(map, text, FALSE, domainsOf(fromText(text)), 1).map

\* C19: a second add of a filter with the same domains leaves the index as the
\* first add left it, and the add of a filter the index holds leaves it as it
\* is.
C19_AddIdempotent ==
  \A text \in IndexedTexts :
    /\ AfterAdd(AfterAdd(filtersByDomain, text), text) = AfterAdd(filtersByDomain, text)
    /\ text \in indexed => AfterAdd(filtersByDomain, text) = filtersByDomain

\* A filter the index holds has just been added again; it shares one domain
\* with another filter and is alone in another.
C19_Witness ==
  /\ call.op = "add" /\ call.had /\ call.text = F_dom
  /\ MapGet(filtersByDomain, Dom_ex).kind = "map"
  /\ MapGet(filtersByDomain, Dom_www).kind = "map"
  /\ Len(MapGet(filtersByDomain, Dom_www).entries) = 1

\* C20: the blank domain holds included filters only: it has no key, a bare
\* filter, or a FilterMap all of whose flags are true.
C20_BlankOnlyIncluded ==
  MapHas(filtersByDomain, Dom_blank) =>
    \/ MapGet(filtersByDomain, Dom_blank).kind = "string"
    \/ /\ MapGet(filtersByDomain, Dom_blank).kind = "map"
       /\ \A j \in DOMAIN MapGet(filtersByDomain, Dom_blank).entries :
            MapGet(filtersByDomain, Dom_blank).entries[j][2]

\* A filter that excludes the blank domain has just been added while the
\* blank domain holds two filters.
C20_Witness ==
  /\ call.op = "add" /\ ~call.had
  /\ <<Dom_blank, FALSE>> \in SeqToSet(domainsOf(fromText(call.text)))
  /\ MapHas(filtersByDomain, Dom_blank)
  /\ TextsOf(MapGet(filtersByDomain, Dom_blank)) = {F_ad, F_notwww}

\* The index after remove(text, domains).
AfterRemove(map, text) == FiltersByDomain_remove(map, text, domainsOf(fromText(text)), 1).map

\* The domains of a filter that hold a bare filter other than it.
BareElsewhere(map, text) ==
  {p \in StoredPairs(text) :
     /\ MapHas(map, p[1])
     /\ MapGet(map, p[1]).kind = "string"
     /\ MapGet(map, p[1]).text # text}

\* add(text) turns each bare filter s it meets into {s: true, text: include},
\* in that order and at the place of the domain, and the index grows by the
\* domains it had no key for and by nothing else.
Promotes(map, after, text) ==
  /\ \A p \in BareElsewhere(map, text) :
       /\ MapHas(after, p[1])
       /\ MapGet(after, p[1])
            = FilterMap(<< <<MapGet(map, p[1]).text, TRUE>>, <<text, p[2]>> >>)
       /\ MapIndex(after, p[1]) = MapIndex(map, p[1])
  /\ Len(after) = Len(map) + Cardinality({p \in StoredPairs(text) : ~MapHas(map, p[1])})

\* What is to stand for a domain whose FilterMap is left with the entries rest.
CollapsedTo(after, domain, rest) ==
  IF rest = <<>> THEN ~MapHas(after, domain)
  ELSE /\ MapHas(after, domain)
       /\ MapGet(after, domain) = IF Len(rest) = 1 /\ rest[1][2]
                                    THEN BareFilter(rest[1][1], FALSE)
                                    ELSE FilterMap(rest)

\* remove(text) leaves, for each domain of the filter that held a FilterMap,
\* what the map without the filter collapses to.
Collapses(map, after, text) ==
  \A p \in SeqToSet(domainsOf(fromText(text))) :
    (MapHas(map, p[1]) /\ MapGet(map, p[1]).kind = "map")
    => CollapsedTo(after, p[1], MapDelete(MapGet(map, p[1]).entries, text))

\* C21: adding a filter to a domain that holds another filter bare replaces
\* the entry by the FilterMap of the two, the bare one first and included,
\* without a new key; removing a filter from a FilterMap deletes the domain
\* when the map becomes empty, leaves the bare filter when the one entry left
\* is included, and keeps the FilterMap otherwise.
C21_PromoteAndCollapse ==
  /\ \A text \in IndexedTexts \ indexed :
       Promotes(filtersByDomain, AfterAdd(filtersByDomain, text), text)
  /\ \A text \in indexed :
       Collapses(filtersByDomain, AfterRemove(filtersByDomain, text), text)

\* An excluded filter has just joined a bare filter: the domain maps to the
\* FilterMap of the two, from which either can be removed.
C21_Witness ==
  /\ call.op = "add" /\ ~call.had /\ call.text = F_dom
  /\ MapHas(filtersByDomain, Dom_www)
  /\ MapGet(filtersByDomain, Dom_www) = FilterMap(<< <<F_www, TRUE>>, <<F_dom, FALSE>> >>)
  /\ MapHas(filtersByDomain, Dom_ex)
  /\ MapGet(filtersByDomain, Dom_ex) = FilterMap(<< <<F_ex, TRUE>>, <<F_dom, TRUE>> >>)

\* match returned null.
ReturnsNull(r) == ~r.exc /\ r.res = MatchResult(None)

\* The whitelist matcher with specificOnly=false on the query.
WhitelistScan(v, cm, q) == Matcher_match(v, cm.whitelist, [q EXCEPT !.specificOnly = FALSE])

\* What match is to return after the blocking scan b: null without consulting
\* the whitelist when nothing was hit and the mask has no whitelisting type,
\* and otherwise the hit of the whitelist scanned with specificOnly=false, or
\* the blocking hit when the whitelist has none.
WhitelistOnDemand(v, cm, q, b, r) ==
  IF b.hit = None /\ q.typeMask \cap WHITELISTING_TYPES = {}
    THEN ReturnsNull(r) /\ r.cm.whitelist = cm.whitelist
    ELSE /\ ~r.exc
         /\ r.res = MatchResult(IF WhitelistScan(v, cm, q).hit # None
                                  THEN WhitelistScan(v, cm, q).hit ELSE b.hit)

\* C22: match consults the whitelist only when a blocking filter was hit or
\* the type mask has a whitelisting type, and then with specificOnly=false;
\* with no whitelisting type and no blocking hit it returns null whatever
\* whitelist filters are held.
C22_WhitelistOnDemand ==
  \A v \in Variants : \A q \in Queries :
    WhitelistOnDemand(v, Form(v), q,
                      IF q.typeMask \ WHITELISTING_TYPES # {}
                        THEN Matcher_match(v, Form(v).blocking, q)
                        ELSE Out(Form(v).blocking, None, <<>>, FALSE),
                      matchInternal(v, Form(v), q))

\* The type masks without a bit outside WHITELISTING_TYPES.
WhitelistingOnly == {q \in {Q_document, Q_masks} : q.typeMask \subseteq WHITELISTING_TYPES}

\* The call returned no blocking filter.
NoBlockingHit(r) == r.exc \/ r.res.hit = None \/ fromText(r.res.hit[1]).type # "blocking"

\* search returned an empty list of blocking filters.
EmptyBlocking(r) == ~r.exc /\ r.res.blocking = Some(<<>>)

\* C23: for a type mask made of whitelisting types only, match and search do
\* not consult the blocking matcher: match returns no blocking filter and
\* search returns an empty blocking list, whatever blocking filters are held.
C23_BlockingOnDemand ==
  \A v \in Variants : \A q \in WhitelistingOnly :
    /\ NoBlockingHit(CombinedMatcher_match(v, Form(v), q))
    /\ matchInternal(v, Form(v), q).cm.blocking = Form(v).blocking
    /\ \A filterType \in {"blocking", "all"} :
         EmptyBlocking(CombinedMatcher_search(v, Form(v), q, filterType))

\* The filters a matcher holds under a keyword.
BucketOf(m, keyword) ==
  {m.keywordByFilter[i][1] :
     i \in {j \in DOMAIN m.keywordByFilter : m.keywordByFilter[j][2] = keyword}}

\* The filters of the bucket that match the request and are not left out by
\* specificOnly.
Wanted(m, keyword, q, specificOnly) ==
  {text \in BucketOf(m, keyword) :
     matchFilter(fromText(text), q) /\ ~(specificOnly /\ isGeneric(text))}

\* Without a collection: a filter of the bucket that matches, null when there
\* is none.
FirstMatch(r, wanted) ==
  /\ ~r.exc
  /\ r.coll = <<>>
  /\ IF wanted = {} THEN r.hit = None ELSE r.hit # None /\ r.hit[1] \in wanted

\* With a collection: null, and every filter of the bucket that matches is
\* appended, once.
AllMatches(r, wanted) ==
  /\ ~r.exc
  /\ r.hit = None
  /\ SeqToSet(r.coll) = wanted
  /\ Len(r.coll) = Cardinality(wanted)

\* The keywords checkEntryMatch is called with.
Keywords == {"ad", "bn", ""}

\* C24: checkEntryMatch without a collection returns a filter of the keyword's
\* bucket that matches the request (null when none does); with a collection
\* it appends every matching filter of the bucket and returns null.
C24_FirstOrAll ==
  \A v \in Variants : \A m \in MatchersOf(v) : \A keyword \in Keywords :
    \A q \in Queries : \A specificOnly \in {q.specificOnly, FALSE} :
      /\ FirstMatch(checkEntryMatch(v, m, keyword, q, specificOnly, FALSE, <<>>),
                    Wanted(m, keyword, q, specificOnly))
      /\ AllMatches(checkEntryMatch(v, m, keyword, q, specificOnly, TRUE, <<>>),
                    Wanted(m, keyword, q, specificOnly))

\* What checkEntryMatch collects for a keyword under specificOnly.
SpecificHits(v, m, keyword, q) ==
  checkEntryMatch(v, m, keyword, [q EXCEPT !.specificOnly = TRUE], TRUE, TRUE, <<>>)

\* Of the filters of the bucket that match the request, the ones collected
\* are the ones that are not generic.
GenericLeftOut(m, keyword, q, r) ==
  \/ r.exc
  \/ \A text \in BucketOf(m, keyword) :
       matchFilter(fromText(text), q) => (Contains(r.coll, text) <=> ~isGeneric(text))

\* C25: with specificOnly a filter of the keyword's bucket is left out of the
\* check if and only if it is generic, whichever path checkEntryMatch takes
\* (a filter with sitekeys and no domains is not generic and is checked).
C25_SpecificIsNotGeneric ==
  \A v \in Variants : \A m \in MatchersOf(v) : \A keyword \in Keywords : \A q \in Queries :
    GenericLeftOut(m, keyword, q, SpecificHits(v, m, keyword, q))

\* The document host names of the model.
Hosts == {Dom_blank, Dom_ex, Dom_www}

\* A script request from a page of the host.
RequestFrom(host) == [Q_script EXCEPT !.docDomain = Some(host)]

\* The flag that the most specific suffix of the host (the host, its parent
\* domains, then "") has in the domains of the filter; false when none of
\* them is among the domains.
IncludedAt(text, host) ==
  firstKnownSuffix(domainsOf(fromText(text)), domainSuffixes(host, FALSE), 1)

\* The filters of the bucket handed to filter.matches are the ones included
\* at the host.
SubmitsIncluded(m, keyword, host, r) ==
  /\ ~r.exc
  /\ \A text \in BucketOf(m, keyword) : Contains(r.seen, text) <=> IncludedAt(text, host)

\* C26: in the domain-partitioned match without specificOnly, a filter of the
\* keyword's bucket is handed to filter.matches for a document host name if
\* and only if the most specific suffix of the host that is among the
\* filter's domains marks it as included.
C26_MostSpecificSuffixDecides ==
  \A m \in MatchersOf("lazy") : \A keyword \in Keywords : \A host \in Hosts :
    SubmitsIncluded(m, keyword, host,
                    Lazy_submittedByDomain(m, keyword, RequestFrom(host), FALSE))

\* The host name of a request without a trailing dot; the empty host name
\* when the request has none.
HostName(docDomain) ==
  IF docDomain = None THEN Dom_blank
  ELSE IF docDomain[1] # <<>> /\ docDomain[1][Len(docDomain[1])] = ""
    THEN IF Len(docDomain[1]) = 2 /\ docDomain[1][1] = "" THEN Dom_blank
         ELSE SubSeq(docDomain[1], 1, Len(docDomain[1]) - 1)
  ELSE docDomain[1]

\* The suffixes of the host name that are among the domains.
KnownSuffixes(domains, host) ==
  {suffix \in SeqToSet(domainSuffixes(host, FALSE)) : MapHas(domains, suffix)}

\* The flag of the longest of them, the flag stored for "" when there is none.
FlagOfMostSpecific(domains, known) ==
  IF known = {} THEN MapHas(domains, Dom_blank) /\ MapGet(domains, Dom_blank)
  ELSE MapGet(domains, CHOOSE s \in known : \A t \in known : Len(t) <= Len(s))

\* The request gives a site key whose uppercase form is among the filter's.
KeyAccepted(sitekeys, sitekey) ==
  sitekey # None /\ \E i \in DOMAIN sitekeys : sitekeys[i] = toUpperCaseKey(sitekey[1])

\* What isActiveOnDomain is to return.
ActiveOn(filter, docDomain, sitekey) ==
  /\ filter.sitekeys # None => KeyAccepted(filter.sitekeys[1], sitekey)
  /\ filter.domains # None =>
       FlagOfMostSpecific(filter.domains[1], KnownSuffixes(filter.domains[1], HostName(docDomain)))

Matcher_findKeyword(v, m, text) ==
  IF v = "lazy" THEN Lazy_findKeyword(m, text) ELSE Split_findKeyword(m, text)

\* The candidate keywords of a filter that findKeyword may choose.
Acceptable(text) == {k \in SeqToSet(patternCandidates(fromText(text))) : ~isBadKeyword(k)}

\* The number of filters the matcher holds under a keyword.
Indexes(m, keyword) == Cardinality(BucketOf(m, keyword))

\* The keyword is an acceptable candidate that indexes the fewest filters,
\* and no candidate with as few filters is longer; it is the empty keyword
\* when there is no acceptable candidate.
FewestThenLongest(m, text, keyword) ==
  IF Acceptable(text) = {} THEN keyword = ""
  ELSE /\ keyword \in Acceptable(text)
       /\ \A c \in Acceptable(text) :
            \/ Indexes(m, keyword) < Indexes(m, c)
            \/ Indexes(m, keyword) = Indexes(m, c) /\ Len(keyword) >= Len(c)

\* The filters findKeyword is asked about, one of them without a pattern.
KeywordTexts == {F_ad, F_key, F_adbn, F_abn, F_long, F_com, F_http, I_opt}

\* C28: findKeyword returns the candidate keyword of the filter's pattern,
\* other than http, https, com and js, that indexes the fewest filters in the
\* matcher, the longer one of two that index equally many, and the empty
\* keyword when the filter has no pattern or no such candidate.
C28_FewestThenLongest ==
  \A v \in Variants : \A m \in MatchersOf(v) : \A text \in KeywordTexts :
    FewestThenLongest(m, text, Matcher_findKeyword(v, m, text))

\* A filter has just been added under the shorter of its two candidates,
\* because the longer one indexes a filter; now that both index one filter,
\* the longer one is chosen for it.
C28_Witness ==
  /\ last.op = "add" /\ last.text = F_long /\ ~last.had
  /\ \A v \in Variants :
       /\ Matcher_has(Form(v).blocking, F_abn)
       /\ MapGet(Form(v).blocking.keywordByFilter, F_long) = "ad"
       /\ Matcher_findKeyword(v, Form(v).blocking, F_long) = "abn"
       /\ Matcher_findKeyword(v, Form(v).blocking, F_adbn) = "bn"

\* "http://ad/bn": the first keyword of the URL is a bad keyword.
H_http == <<"h", "t", "t", "p", ":", "/", "/", "a", "d", "/", "b", "n">>

\* The requests of the model, and each of them for the URL "http://ad/bn".
Requests == Queries \cup {[q EXCEPT !.href = H_http] : q \in Queries}

\* The candidates whose bucket holds a filter to return, none of an earlier
\* candidate doing so.
Earliest(m, candidates, q) ==
  {i \in DOMAIN candidates :
     /\ Wanted(m, candidates[i], q, q.specificOnly) # {}
     /\ \A j \in 1..(i - 1) : Wanted(m, candidates[j], q, q.specificOnly) = {}}

\* match returns a filter of the first candidate that has one to return, and
\* null when no candidate has.
HitOfFirst(r, m, candidates, q) ==
  /\ ~r.exc
  /\ IF Earliest(m, candidates, q) = {} THEN r.hit = None
     ELSE /\ r.hit # None
          /\ \A i \in Earliest(m, candidates, q) :
               r.hit[1] \in Wanted(m, candidates[i], q, q.specificOnly)

\* C29: Matcher.match visits the keywords of the URL from left to right,
\* without the bad keywords and with the empty keyword last, and returns the
\* hit of the first of them whose bucket has a matching filter; it returns
\* null only when none has.
C29_FirstCandidateWins ==
  \A v \in Variants : \A m \in MatchersOf(v) : \A q \in Requests :
    /\ candidatesOf(q) = <<"ad", "bn", "">>
    /\ HitOfFirst(Matcher_match(v, m, q), m, <<"ad", "bn", "">>, q)


\* "ad:/bn": the keyword "ad" is in the URL, yet "^ad^" and "/ad/bn^" do not
\* match it.
H_scheme == <<"a", "d", ":", "/", "b", "n">>

Probes == Queries \cup {[q EXCEPT !.href = H_scheme] : q \in Queries}

\* The matcher after compilePatterns gave null for the keyword: the pre-check
\* is not made.
NoCompiled(m, keyword) ==
  [m EXCEPT !.compiledPatternsByKeyword = FnSet(@, keyword, None)]

SameOutcome(a, b) == a.hit = b.hit /\ a.coll = b.coll /\ a.exc = b.exc

\* A bucket of COMPILE_PATTERNS_MAX + 1 filters.
TooMany == [i \in 1..(COMPILE_PATTERNS_MAX + 1) |-> F_ad]

\* No compiled pattern for a bucket that is too large: the check goes on for
\* a request that no pattern matches.
TooManyPasses(q) ==
  /\ compilePatterns(TooMany).compiled = None
  /\ Lazy_quickCheck(Lazy_new, "ad", TooMany, q).pass
  /\ Split_quickCheck(Split_new, "ad", TooMany, q).pass
  /\ Split_quickCheck(Split_new, "ad", TooMany, q).m.compiledPatternsByKeyword["ad"] = None

\* C30: the compiled patterns are a pure pre-check: checkEntryMatch gives the
\* same result with the pre-check as without it, for every bucket and
\* request, and a bucket of more than COMPILE_PATTERNS_MAX filters is checked
\* without compiled patterns.
C30_PurePrecheck ==
  \A v \in Variants : \A m \in MatchersOf(v) : \A keyword \in Keywords :
    \A q \in Probes : \A collect \in BOOLEAN :
      /\ SameOutcome(checkEntryMatch(v, m, keyword, q, q.specificOnly, collect, <<>>),
                     checkEntryMatch(v, NoCompiled(m, keyword), keyword, q,
                                     q.specificOnly, collect, <<>>))
      /\ TooManyPasses(q)


\* The bucket of a keyword as it is built from keywordByFilter.
Built(m, keyword) == FnGet(Lazy_rebuild(m.keywordByFilter, 1, EmptyFn), keyword, <<>>)

\* Every derived entry of the lazily indexed Matcher is what its builder
\* makes of the filters held now.
LazyDerivedCurrent(m) ==
  /\ DOMAIN m.filtersByKeyword # {}
       => m.filtersByKeyword = Lazy_rebuild(m.keywordByFilter, 1, EmptyFn)
  /\ \A typeMask \in DOMAIN m.filterMapsByType :
       \A keyword \in DOMAIN m.filterMapsByType[typeMask] :
         m.filterMapsByType[typeMask][keyword]
           = SelectSeq(Built(m, keyword),
                       LAMBDA f : contentTypeOf(fromText(f)) \cap typeMask # {})
  /\ \A keyword \in DOMAIN m.filterDomainMapsByKeyword :
       m.filterDomainMapsByKeyword[keyword]
         = Lazy_fillDomains(<<>>, Built(m, keyword), 1).map
  /\ \A keyword \in DOMAIN m.compiledPatternsByKeyword :
       m.compiledPatternsByKeyword[keyword] = compilePatterns(Built(m, keyword)).compiled

\* The same for the Matcher that keeps simple and complex filters apart.
SplitDerivedCurrent(m) ==
  /\ \A keyword \in DOMAIN m.simpleFiltersByKeyword :
       m.simpleFiltersByKeyword[keyword]
         = SelectSeq(Built(m, keyword), LAMBDA f : isSimple(fromText(f)))
  /\ \A keyword \in DOMAIN m.complexFiltersByKeyword :
       m.complexFiltersByKeyword[keyword]
         = SelectSeq(Built(m, keyword), LAMBDA f : ~isSimple(fromText(f)))
  /\ \A typeMask \in DOMAIN m.filterMapsByType :
       \A keyword \in DOMAIN m.filterMapsByType[typeMask] :
         m.filterMapsByType[typeMask][keyword]
           = SelectSeq(Built(m, keyword),
                       LAMBDA f : /\ ~isSimple(fromText(f))
                                  /\ contentTypeOf(fromText(f)) \cap typeMask # {})
  /\ \A keyword \in DOMAIN m.compiledPatternsByKeyword :
       m.compiledPatternsByKeyword[keyword]
         = compilePatterns(SelectSeq(Built(m, keyword),
                                     LAMBDA f : isSimple(fromText(f)))).compiled

\* C31: in every reachable state each derived entry that exists (filters by
\* keyword, per-type index, per-keyword FiltersByDomain, per-keyword compiled
\* patterns) equals what is built from the filters held now; no add or
\* remove leaves an entry that was built from an earlier filter set.
C31_DerivedCurrent ==
  /\ LazyDerivedCurrent(lazy.blocking) /\ LazyDerivedCurrent(lazy.whitelist)
  /\ SplitDerivedCurrent(split.blocking) /\ SplitDerivedCurrent(split.whitelist)

\* A filter was removed, and derived entries built before that are still
\* there.
C31_Witness ==
  /\ last.op = "remove" /\ last.had
  /\ Len(split.blocking.keywordByFilter) = 1
  /\ DOMAIN split.blocking.compiledPatternsByKeyword # {}
  /\ DOMAIN lazy.blocking.filtersByKeyword # {}
  /\ DOMAIN lazy.whitelist.filtersByKeyword = {}


\* "x:/ad/ad": the keyword "ad" occurs twice in the URL.
H_twice == <<"x", ":", "/", "a", "d", "/", "a", "d">>

\* A script request from www.ex.com.
Q_www == Query(H_adbn, {"SCRIPT"}, Some(Dom_www), None, FALSE)

AtMostOnce(list) == \A i, j \in DOMAIN list : list[i] = list[j] => i = j

\* Each list that search returns holds a filter at most once.
ListsAtMostOnce(r) ==
  ~r.exc => /\ r.res.blocking # None => AtMostOnce(r.res.blocking[1])
            /\ r.res.whitelist # None => AtMostOnce(r.res.whitelist[1])

\* The CombinedMatcher after one more add.
Holding(v, text) == CombinedMatcher_add(v, Form(v), text)

\* C32: each list returned by search holds every matching filter at most
\* once, also when a keyword occurs several times in the URL and when a
\* filter is included on several suffixes of the document hostname.
C32_AtMostOnce ==
  \A v \in Variants : \A filterType \in FilterTypes :
    /\ \A q \in Queries \cup {[q EXCEPT !.href = H_twice] : q \in Queries} :
         ListsAtMostOnce(searchInternal(v, Form(v), q, filterType))
    /\ ListsAtMostOnce(searchInternal(v, Holding(v, F_both), Q_www, filterType))


\* Queries that differ from the ones made in one argument each; "null" is a
\* host name and a site key like any other string.
Variations(q) ==
  {q, [q EXCEPT !.href = H_scheme], [q EXCEPT !.typeMask = {"IMAGE"}],
   [q EXCEPT !.docDomain = Some(<<"null">>)], [q EXCEPT !.docDomain = Some(Dom_www)],
   [q EXCEPT !.sitekey = Some("null")], [q EXCEPT !.sitekey = Some("x")],
   [q EXCEPT !.specificOnly = ~q.specificOnly]}

\* The calls that use the result cache: match, and search with a filterType.
CachedCalls(queries) ==
  {<<"match", q, "all">> : q \in queries}
  \cup {<<"search", q, filterType>> : q \in queries, filterType \in FilterTypes}

\* The key under which the call looks up and stores its result.
KeyOf(c) == IF c[1] = "match" THEN matchKey(c[2]) ELSE searchKey(c[2], c[3])

\* The entry held for a call is the entry of no other call.
EntryOfOneCall(cm, calls) ==
  \A c \in calls : \A d \in calls :
    KeyOf(c) \in DOMAIN cm.resultCache /\ c # d => KeyOf(c) # KeyOf(d)

\* C33: two queries that differ in url.href, typeMask, docDomain, sitekey,
\* specificOnly, the operation or filterType never share an entry of the
\* result cache.
C33_NoSharedEntry ==
  \A v \in Variants :
    EntryOfOneCall(Form(v), CachedCalls(UNION {Variations(q) : q \in Queries}))


\* The filters a CombinedMatcher holds, each with its keyword.
HeldWithKeywords(cm) == <<cm.blocking.keywordByFilter, cm.whitelist.keywordByFilter>>

\* checkEntryMatch leaves keywordByFilter as it is, with and without a
\* collection, also when it throws.
CheckKeepsFilters(v, m) ==
  \A keyword \in Keywords : \A q \in Queries : \A collect \in BOOLEAN :
    checkEntryMatch(v, m, keyword, q, q.specificOnly, collect, <<>>).m.keywordByFilter
      = m.keywordByFilter

\* match, search and isWhitelisted leave the CombinedMatcher with the filters
\* and keywords it had.
QueriesKeepFilters(v, cm) ==
  \A q \in Queries :
    /\ HeldWithKeywords(CombinedMatcher_match(v, cm, q).cm) = HeldWithKeywords(cm)
    /\ HeldWithKeywords(CombinedMatcher_isWhitelisted(v, cm, q).cm) = HeldWithKeywords(cm)
    /\ \A filterType \in FilterTypes :
         HeldWithKeywords(CombinedMatcher_search(v, cm, q, filterType).cm)
           = HeldWithKeywords(cm)

\* C34: match, search, isWhitelisted and checkEntryMatch never change which
\* filters the matcher holds nor the keyword of a filter (has and findKeyword
\* return a value and assign nothing); they only fill derived maps and the
\* result cache.
C34_QueriesKeepFilters ==
  \A v \in Variants :
    /\ QueriesKeepFilters(v, Form(v))
    /\ \A m \in MatchersOf(v) : CheckKeepsFilters(v, m)

\* A match has built the buckets and stored its result beside two filters.
C34_Witness ==
  /\ last.op = "match"
  /\ Len(lazy.blocking.keywordByFilter) = 2
  /\ DOMAIN lazy.blocking.filtersByKeyword # {}
  /\ DOMAIN lazy.resultCache # {}
  /\ DOMAIN split.resultCache # {}


\* C35: getFilters(domain) returns each known filter at most once, also when
\* the filter is included on several suffixes of the domain.
C35_EachFilterOnce ==
  hideCall.op = "getFilters" => AtMostOnce(hideCall.filters)

\* An exception for the selector of the filter is known and active on the
\* domain.
ExceptionActive(x, selector, domain) ==
  \E text \in x.exceptions :
    /\ ContentFilter_fromText(text).selector = selector
    /\ ActiveOn(ContentFilter_fromText(text), Some(domain), None)

\* What getFilters(domain) is to contain.
Hidden(e, x, domain) ==
  {text \in EmulationTexts :
     /\ ElemHideEmulation_has(e, text)
     /\ ActiveOn(ContentFilter_fromText(text), Some(domain), None)
     /\ ~ExceptionActive(x, ContentFilter_fromText(text).selector, domain)}

\* C36: after any sequence of add, remove and clear, getFilters(domain)
\* contains a filter if and only if the filter is known, is active on the
\* domain by its most specific suffix, and no exception for its selector is
\* active on the domain.
C36_ExactlyTheActive ==
  \A domain \in HideDomains :
    SeqToSet(ElemHideEmulation_getFilters(emulation, exceptions, domain))
      = Hidden(emulation, exceptions, domain)

\* getFilters("www.ex.com") left out a filter excluded on www.ex.com and a
\* filter whose selector has an exception there, and returned a third.
C36_Witness ==
  /\ hideCall.op = "getFilters" /\ hideCall.text = "www.ex.com"
  /\ emulation.filters = {M_ex, M_notwww, M_www}
  /\ exceptions.exceptions = {X_www}
  /\ hideCall.filters = <<M_www>>

\* The texts held for the selectors, all together.
StoredTexts(x) ==
  UNION {SeqToSet(x.exceptionsBySelector[selector].texts) :
           selector \in DOMAIN x.exceptionsBySelector}

\* C37: in every reachable state each selector maps to a single text or to a
\* set of at least two texts, the texts held for all selectors are exactly
\* the known exceptions, and hasExceptions(selector) is true if and only if
\* a known exception has the selector.
C37_ExceptionsBySelector ==
  /\ \A selector \in DOMAIN exceptions.exceptionsBySelector :
       /\ \/ /\ exceptions.exceptionsBySelector[selector].kind = "string"
             /\ Len(exceptions.exceptionsBySelector[selector].texts) = 1
          \/ /\ exceptions.exceptionsBySelector[selector].kind = "set"
             /\ Len(exceptions.exceptionsBySelector[selector].texts) >= 2
             /\ AtMostOnce(exceptions.exceptionsBySelector[selector].texts)
       /\ \A text \in SeqToSet(exceptions.exceptionsBySelector[selector].texts) :
            ContentFilter_fromText(text).selector = selector
  /\ StoredTexts(exceptions) = exceptions.exceptions
  /\ \A text \in ExceptionTexts :
       ElemHideExceptions_has(exceptions, text) <=> text \in exceptions.exceptions
  /\ \A selector \in Selectors :
       ElemHideExceptions_hasExceptions(exceptions, selector)
         <=> \E text \in exceptions.exceptions :
               ContentFilter_fromText(text).selector = selector

\* An exception was removed from a set of two: the selector is left with the
\* other text alone.
C37_Witness ==
  /\ hideCall.op = "remove" /\ hideCall.had /\ hideCall.text = X_ex
  /\ exceptions.exceptions = {X_gen, X_t}
  /\ exceptions.exceptionsBySelector["s"].kind = "string"

\* C38: add of a new exception emits "added" once and then "elemhideupdate",
\* remove of a known exception emits "removed" once and then
\* "elemhideupdate", in both cases when has(exception) already answers for
\* the state after the change; add of a known exception and remove of an
\* unknown one emit nothing.
C38_EventsAfterChange ==
  /\ hideCall.op = "add" =>
       /\ ElemHideExceptions_has(exceptions, hideCall.text)
       /\ hideCall.events = IF hideCall.had THEN <<>>
                            ELSE <<Event("added", hideCall.text, TRUE),
                                   Event("elemhideupdate", hideCall.text, TRUE)>>
  /\ hideCall.op = "remove" =>
       /\ ~ElemHideExceptions_has(exceptions, hideCall.text)
       /\ hideCall.events = IF hideCall.had
                              THEN <<Event("removed", hideCall.text, FALSE),
                                     Event("elemhideupdate", hideCall.text, FALSE)>>
                              ELSE <<>>

\* A second exception for a selector was added and its two events emitted.
C38_Witness ==
  /\ hideCall.op = "add" /\ ~hideCall.had /\ hideCall.text = X_www
  /\ exceptions.exceptions = {X_ex, X_www}
  /\ Len(hideCall.events) = 2


\* The keywords under which the matcher holds a filter.
KeywordsHeld(m) == {m.keywordByFilter[i][2] : i \in DOMAIN m.keywordByFilter}

\* filterCountByKeyword has an entry for exactly the keywords of the filters
\* held, each the number of those filters and so at least one, and
\* findKeyword is given these numbers for the candidates of a filter.
CountsAreTrue(m) ==
  /\ DOMAIN m.filterCountByKeyword = KeywordsHeld(m)
  /\ \A keyword \in DOMAIN m.filterCountByKeyword :
       /\ m.filterCountByKeyword[keyword] = Cardinality(BucketOf(m, keyword))
       /\ m.filterCountByKeyword[keyword] >= 1
  /\ \A text \in URLFilterTexts :
       \A c \in SeqToSet(patternCandidates(fromText(text))) :
         Lazy_counts(m, patternCandidates(fromText(text)))[c]
           = Cardinality(BucketOf(m, c))

\* C39: in every state of the lazily indexed Matcher reachable by add, remove
\* and clear, filterCountByKeyword maps each keyword to the number of filters
\* held under it, has no entry of zero or less, and findKeyword ranks the
\* candidates by these counts.
C39_CountsAreTrue == CountsAreTrue(lazy.blocking) /\ CountsAreTrue(lazy.whitelist)

\* One of two filters under the keyword "ad" was removed: the count is one.
C39_Witness ==
  /\ last.op = "remove" /\ last.had
  /\ DOMAIN lazy.blocking.filterCountByKeyword = {"ad"}
  /\ lazy.blocking.filterCountByKeyword["ad"] = 1
  /\ Len(lazy.blocking.keywordByFilter) = 1

====
